---- MODULE Spec2Model ----
(***************************************************************************)
(* QTC quantum-safe wallet generators: the Primary scripts (qti2.js,       *)
(* qtc2.js), the Single PQ-HD scripts (qti3.js and its noble-based         *)
(* predecessor), the HD multi-address scripts (qti3_hd.js, CLI- and        *)
(* noble-based) and the oqs_wallet_cli provider they spawn.                *)
(*                                                                         *)
(* Byte strings are sequences of 0..255 with the lengths the code uses.    *)
(* The sponge functions (SHA3-256, SHA3-512, SHAKE256) and the lattice     *)
(* primitives (ML-KEM-1024, ML-DSA-65) are library code; they are          *)
(* represented by small deterministic mixing functions that keep what the  *)
(* scripts rely on: the digest width, the dependence on every input byte   *)
(* in order, the prefix property of an XOF, and the distinctness of the    *)
(* three sponge instances.  Key sizes are scaled down to KeyLen bytes.     *)
(***************************************************************************)
EXTENDS Integers, Sequences, FiniteSets

\* ------------------------------------------------------------------ bounds
RngValues == 2      \* distinct values the OS random source can return
MaxCount  == 2      \* largest address count / account / change argument
KeyLen    == 3      \* bytes of a (scaled-down) public or private key
MaxCalls  == 3      \* method calls made on one QTCPQHDWallet object
ApiDraws  == 1      \* values of the OS random source a caller of the class meets
MaxPathValue == 1   \* largest of the small path components a caller tries

\* -------------------------------------------------------- program constants
SeedLen          == 64   \* crypto.randomBytes(64)
EncapsMsgLen     == 32   \* ML-KEM encapsulation message
SharedLen        == 32   \* ML-KEM-1024 shared secret
DilithiumSeedLen == 32   \* shake256.digest(32), masterEntropy.slice(0, 32)
MasterLen        == 64   \* digest(64), SHA3-512
ProgramLen       == 20   \* publicKeyHash.slice(0, 20)
DrbgSeedLen      == 48   \* std::vector<uint8_t> out(48)
DefaultPurpose   == 44   \* constructor(purpose = 44, ...)
DefaultCount     == 5    \* parseInt(args[0]) || 5
BECH32_CONST     == 1            \* checksum constant of `bech32`
BECH32M_CONST    == 734539939    \* 0x2bc830a3, checksum constant of `bech32m`

Byte == 0..255

\* ------------------------------------------------------------- byte helpers
\* A JavaScript null.
Null == <<-1>>

Take(s, n) == SubSeq(s, 1, IF n < Len(s) THEN n ELSE Len(s))

\* The sequence with the values of the function f on 1..n.
Seqd(f) == f \o << >>

RECURSIVE Concat(_)
Concat(parts) ==
  IF parts = << >> THEN << >> ELSE Head(parts) \o Concat(Tail(parts))

\* crypto.randomBytes(n): the k-th value the OS random source can return.
randomBytes(n, k) == Seqd([i \in 1..n |-> (k * 97 + i * 7 + 11) % 256])

\* ASCII of the literal strings the code absorbs.
TAG_QTC_PQHD_DILITHIUM ==
  <<81, 84, 67, 95, 80, 81, 72, 68, 95, 68, 73, 76, 73, 84, 72, 73, 85, 77>>
TAG_oqs_wallet_cli ==
  <<111, 113, 115, 95, 119, 97, 108, 108, 101, 116, 95, 99, 108, 105>>
DOM_kyber_kem_self ==
  <<107, 121, 98, 101, 114, 95, 107, 101, 109, 95, 115, 101, 108, 102>>
DOM_dilithium_keygen ==
  <<100, 105, 108, 105, 116, 104, 105, 117, 109, 95, 107, 101, 121, 103, 101, 110>>
DOM_kyber_keygen ==
  <<107, 121, 98, 101, 114, 95, 107, 101, 121, 103, 101, 110>>

\* ------------------------------------------------------------ sponge model
\* Absorbing one byte into the sponge state.
absorb1(acc, b) == (acc * 257 + b + 1) % 65521

\* Absorbing the eight bytes s[i..i+7], or the single byte s[i] when fewer
\* than eight are left.
absorbBlock(acc, s, i) ==
  IF i + 7 <= Len(s)
  THEN absorb1(absorb1(absorb1(absorb1(absorb1(absorb1(absorb1(absorb1(
         acc, s[i]), s[i + 1]), s[i + 2]), s[i + 3]), s[i + 4]), s[i + 5]),
         s[i + 6]), s[i + 7])
  ELSE absorb1(acc, s[i])

RECURSIVE AbsorbFrom(_, _, _)
AbsorbNext(a, s, j) == IF a >= 0 THEN AbsorbFrom(a, s, j) ELSE 0

\* The sponge state after absorbing s[i..] into acc.
AbsorbFrom(acc, s, i) ==
  IF i > Len(s) THEN acc
  ELSE AbsorbNext(absorbBlock(acc, s, i), s, IF i + 7 <= Len(s) THEN i + 8 ELSE i + 1)

SqueezeByte(acc, i) ==
  LET x == ((acc + 7) * (2 * i + 1)) % 65521
  IN  (x * 31 + (x \div 256) + i) % 256

Squeeze(acc, n) ==
  IF acc >= 0 THEN Seqd([i \in 1..n |-> SqueezeByte(acc, i)]) ELSE << >>

\* One sponge instance: absorb `input` under instance tag `inst`, squeeze n.
Sponge(inst, input, n) == Squeeze(AbsorbFrom(inst, input, 1), n)

\* new SHA3(256).update(x).digest()
SHA3_256(x) == Sponge(256, x, 32)
\* new SHA3(512).update(x).digest() / createHash("sha3-512")
SHA3_512(x) == Sponge(512, x, 64)
\* new SHAKE(256).update(x).digest(n) / OQS_SHA3_shake256_inc_*
SHAKE256(x, n) == Sponge(1256, x, n)

\* ------------------------------------------------------- text encodings
\* Buffer.toString('hex'): two lowercase hex characters (ASCII codes) a byte.
HexDigit(v) == IF v < 10 THEN 48 + v ELSE 87 + v

toHex(bytes) ==
  Seqd([i \in 1..(2 * Len(bytes)) |->
          IF i % 2 = 1 THEN HexDigit(bytes[(i + 1) \div 2] \div 16)
                       ELSE HexDigit(bytes[i \div 2] % 16)])

\* The lambda nyb of hex2bin.
nyb(c) ==
  IF c >= 48 /\ c <= 57 THEN c - 48
  ELSE IF c >= 97 /\ c <= 102 THEN c - 97 + 10
  ELSE IF c >= 65 /\ c <= 70 THEN c - 65 + 10
  ELSE -1

\* hex2bin: [ok, out]; ok = FALSE stands for the std::runtime_error thrown.
hex2bin(hex) ==
  IF Len(hex) % 2 = 1 THEN [ok |-> FALSE, out |-> << >>]
  ELSE IF \E i \in 1..Len(hex) : nyb(hex[i]) < 0
       THEN [ok |-> FALSE, out |-> << >>]
       ELSE [ok |-> TRUE,
             out |-> Seqd([i \in 1..(Len(hex) \div 2) |->
                             nyb(hex[2 * i - 1]) * 16 + nyb(hex[2 * i])])]

\* b64_encode of json_emit.cpp: four 6-bit values per three bytes, 64 = '='.
b64_encode(data) ==
  LET len == Len(data)
      v(g) == data[3 * g + 1] * 65536
              + (IF 3 * g + 2 <= len THEN data[3 * g + 2] * 256 ELSE 0)
              + (IF 3 * g + 3 <= len THEN data[3 * g + 3] ELSE 0)
      ch(g, k) ==
        IF k = 0 THEN (v(g) \div 262144) % 64
        ELSE IF k = 1 THEN (v(g) \div 4096) % 64
        ELSE IF k = 2 THEN (IF 3 * g + 2 <= len THEN (v(g) \div 64) % 64 ELSE 64)
        ELSE (IF 3 * g + 3 <= len THEN v(g) % 64 ELSE 64)
  IN  Seqd([i \in 1..(4 * ((len + 2) \div 3)) |-> ch((i - 1) \div 4, (i - 1) % 4)])

\* Buffer.from(text, 'base64'): decoding stops at the padding.
b64_decode(text) ==
  LET groups == Len(text) \div 4
      pad == Cardinality({i \in 1..Len(text) : text[i] = 64})
      n == 3 * groups - pad
      sx(i) == IF text[i] = 64 THEN 0 ELSE text[i]
      v(g) == sx(4 * g + 1) * 262144 + sx(4 * g + 2) * 4096
              + sx(4 * g + 3) * 64 + sx(4 * g + 4)
      byte(g, k) ==
        IF k = 0 THEN (v(g) \div 65536) % 256
        ELSE IF k = 1 THEN (v(g) \div 256) % 256
        ELSE v(g) % 256
  IN  Seqd([i \in 1..n |-> byte((i - 1) \div 3, (i - 1) % 3)])

\* --------------------------------------------------- lattice primitives
\* ML-KEM-1024 key generation from its 64 bytes of coins (d || z).
MLKEM_KeyGen(coins) ==
  [publicKey |-> Sponge(3001, coins, KeyLen),
   secretKey |-> Sponge(3002, coins, KeyLen)]

\* ML-KEM-1024 encapsulation against pk with the 32-byte message m.
MLKEM_Encaps(pk, m) ==
  [cipherText   |-> Sponge(3003, pk \o m, KeyLen),
   sharedSecret |-> Sponge(3004, pk \o m, SharedLen)]

\* ML-DSA-65 key generation from its 32-byte seed xi.
MLDSA_KeyGen(xi) ==
  [publicKey |-> Sponge(3005, xi, KeyLen),
   secretKey |-> Sponge(3006, xi, KeyLen)]


\* ---------------------------------------------------- oqs_wallet_cli (C++)
\* shake256_expand_seed_48: SHAKE256(prefix || domain || seed) -> 48 bytes.
shake256_expand_seed_48(seed, domain) ==
  SHAKE256(Concat(<<TAG_oqs_wallet_cli, domain, seed>>), DrbgSeedLen)

\* The k-th request of n bytes served by the NIST-KAT DRBG seeded with seed48
\* (init_nist_kat_drbg_48 followed by OQS_randombytes calls).
init_nist_kat_drbg_48(seed48, k, n) == Sponge(4000 + k, seed48, n)

\* A scope whose seed expansion leaves the command's domain out.
RngScopeNoDomain(seed, dom) ==
  SHAKE256(Concat(<<TAG_oqs_wallet_cli, seed>>), DrbgSeedLen)

\* RngScope scope(seed, dom): the 48 bytes its constructor seeds the DRBG with.
RngScope(seed, dom) == shake256_expand_seed_48(seed, dom)

\* The faults a provider process can meet, besides none.
CliFaults == {"none", "spawn", "rng", "alg", "keypair", "encaps"}

\* A failure path that returns status 0.
CliFailSilent(code, msg) ==
  [status |-> 0, stdout |-> [none |-> TRUE], stderr |-> msg, seed |-> Null]

\* A process result as spawnSync reports it: exit status, the JSON object on
\* stdout, the message on stderr; seed is the seed the command decoded.
CliFail(code, msg) ==
  [status |-> code, stdout |-> [none |-> TRUE], stderr |-> msg, seed |-> Null]

\* The std::cout << json_obj(...) of cmd_gen_dilithium_from_seed.
emitDilithium(kp, seed) ==
  [status |-> 0, stderr |-> "", seed |-> seed,
   stdout |-> [none |-> FALSE,
               dilithium_public_b64  |-> b64_encode(kp.publicKey),
               dilithium_private_b64 |-> b64_encode(kp.secretKey)]]

\* cmd_gen_dilithium_from_seed after hex2bin.
dilithiumFromSeed(seed, fault) ==
  IF ~seed.ok THEN CliFail(99, "error: invalid hex")
  ELSE IF fault = "rng" THEN CliFail(99, "error: Failed to switch RNG to NIST-KAT")
  ELSE IF fault = "alg" THEN CliFail(2, "error: ML-DSA-65 unavailable")
  ELSE IF fault = "keypair" THEN CliFail(3, "error: SIG keypair failed")
  ELSE emitDilithium(
         MLDSA_KeyGen(init_nist_kat_drbg_48(RngScope(seed.out, DOM_dilithium_keygen),
                                            1, DilithiumSeedLen)),
         seed.out)

\* cmd_gen_dilithium_from_seed, as run by main (exceptions become 99).
cmd_gen_dilithium_from_seed(seed_hex, fault) ==
  dilithiumFromSeed(hex2bin(seed_hex), fault)

\* The std::cout << json_obj(...) of cmd_kem_self_from_seed.
emitKemSelf(kp, enc, seed) ==
  [status |-> 0, stderr |-> "", seed |-> seed,
   stdout |-> [none |-> FALSE,
               kyber_public_b64  |-> b64_encode(kp.publicKey),
               kyber_private_b64 |-> b64_encode(kp.secretKey),
               shared_b64        |-> b64_encode(enc.sharedSecret)]]

\* OQS_KEM_encaps under the scope's DRBG, second request.
kemSelfEncaps(kp, s48, seed) ==
  emitKemSelf(kp, MLKEM_Encaps(kp.publicKey,
                               init_nist_kat_drbg_48(s48, 2, EncapsMsgLen)), seed)

\* OQS_KEM_keypair under the scope's DRBG, first request.
kemSelfKeypair(s48, seed) ==
  kemSelfEncaps(MLKEM_KeyGen(init_nist_kat_drbg_48(s48, 1, SeedLen)), s48, seed)

\* cmd_kem_self_from_seed after hex2bin.
kemSelfFromSeed(seed, fault) ==
  IF ~seed.ok THEN CliFail(99, "error: invalid hex")
  ELSE IF fault = "rng" THEN CliFail(99, "error: Failed to switch RNG to NIST-KAT")
  ELSE IF fault = "alg" THEN CliFail(2, "error: ML-KEM-1024 unavailable")
  ELSE IF fault = "keypair" THEN CliFail(3, "error: KEM keypair failed")
  ELSE IF fault = "encaps" THEN CliFail(4, "error: KEM encaps failed")
  ELSE kemSelfKeypair(RngScope(seed.out, DOM_kyber_kem_self), seed.out)

\* cmd_kem_self_from_seed, as run by main.
cmd_kem_self_from_seed(seed_hex, fault) ==
  kemSelfFromSeed(hex2bin(seed_hex), fault)

\* The std::cout << json_obj(...) of cmd_gen_kyber_from_seed.
emitKyber(kp, seed) ==
  [status |-> 0, stderr |-> "", seed |-> seed,
   stdout |-> [none |-> FALSE,
               kyber_public_b64  |-> b64_encode(kp.publicKey),
               kyber_private_b64 |-> b64_encode(kp.secretKey)]]

\* cmd_gen_kyber_from_seed after hex2bin.
kyberFromSeed(seed, fault) ==
  IF ~seed.ok THEN CliFail(99, "error: invalid hex")
  ELSE IF fault = "rng" THEN CliFail(99, "error: Failed to switch RNG to NIST-KAT")
  ELSE IF fault = "alg" THEN CliFail(2, "error: ML-KEM-1024 unavailable")
  ELSE IF fault = "keypair" THEN CliFail(3, "error: KEM keypair failed")
  ELSE emitKyber(
         MLKEM_KeyGen(init_nist_kat_drbg_48(RngScope(seed.out, DOM_kyber_keygen),
                                            1, SeedLen)),
         seed.out)

\* cmd_gen_kyber_from_seed, as run by main.
cmd_gen_kyber_from_seed(seed_hex, fault) ==
  kyberFromSeed(hex2bin(seed_hex), fault)

\* The commands main knows.
CliCommands == {"gen_kyber_from_seed", "gen_dilithium_from_seed",
                "kem_self_from_seed"}

\* A command line of oqs_wallet_cli: args is argc - 1; cmd is argv[1] and
\* seed_hex is argv[2] where they exist.
CliArgv(args, cmd, seed_hex) == [args |-> args, cmd |-> cmd, seed_hex |-> seed_hex]

\* main(argc, argv) of oqs_wallet_cli; fault is the failure the process
\* meets inside liboqs, if any.
cliMain(argv, fault) ==
  IF argv.args # 2 THEN CliFail(1, "usage")
  ELSE IF argv.cmd = "gen_kyber_from_seed"
       THEN cmd_gen_kyber_from_seed(argv.seed_hex, fault)
  ELSE IF argv.cmd = "gen_dilithium_from_seed"
       THEN cmd_gen_dilithium_from_seed(argv.seed_hex, fault)
  ELSE IF argv.cmd = "kem_self_from_seed"
       THEN cmd_kem_self_from_seed(argv.seed_hex, fault)
  ELSE CliFail(1, "unknown command")

\* spawnSync(cli, [cmd, seed_hex]): a process that cannot be started reports
\* a null status, written -1 here.
spawnSync(cmd, seed_hex, fault) ==
  IF fault = "spawn" THEN CliFail(-1, "")
  ELSE IF cmd = "kem_self_from_seed" THEN cmd_kem_self_from_seed(seed_hex, fault)
  ELSE IF cmd = "gen_dilithium_from_seed"
       THEN cmd_gen_dilithium_from_seed(seed_hex, fault)
  ELSE CliFail(1, "unknown command")

\* ------------------------------------------------- bech32 library (npm)
RECURSIVE XorBits(_, _)
XorBits(a, b) ==
  IF a = 0 THEN b
  ELSE IF b = 0 THEN a
  ELSE (((a % 2) + (b % 2)) % 2) + 2 * XorBits(a \div 2, b \div 2)

Xor5Table == [a \in 0..31 |-> [b \in 0..31 |-> XorBits(a, b)]]

\* a ^ b on 30-bit values, five bits at a time.
Xor30(a, b) ==
  Xor5Table[a % 32][b % 32]
  + 32 * Xor5Table[(a \div 32) % 32][(b \div 32) % 32]
  + 1024 * Xor5Table[(a \div 1024) % 32][(b \div 1024) % 32]
  + 32768 * Xor5Table[(a \div 32768) % 32][(b \div 32768) % 32]
  + 1048576 * Xor5Table[(a \div 1048576) % 32][(b \div 1048576) % 32]
  + 33554432 * Xor5Table[(a \div 33554432) % 32][(b \div 33554432) % 32]

\* The generator words of polymodStep: 0x3b6a57b2, 0x26508e6d, 0x1ea119fa,
\* 0x3d4233dd, 0x2a1462b3.
GEN == <<996825010, 642813549, 513874426, 1027748829, 705979059>>

GenTable ==
  [b \in 0..31 |->
     XorBits(XorBits(XorBits(XorBits(
       IF b % 2 = 1 THEN GEN[1] ELSE 0,
       IF (b \div 2) % 2 = 1 THEN GEN[2] ELSE 0),
       IF (b \div 4) % 2 = 1 THEN GEN[3] ELSE 0),
       IF (b \div 8) % 2 = 1 THEN GEN[4] ELSE 0),
       IF (b \div 16) % 2 = 1 THEN GEN[5] ELSE 0)]

polymodStep(pre) ==
  Xor30((pre % 33554432) * 32, GenTable[pre \div 33554432])

RECURSIVE polymodFrom(_, _, _)
polymodNext(c, values, j) == IF c >= 0 THEN polymodFrom(c, values, j) ELSE 0

\* for (v of values) chk = polymodStep(chk) ^ v, four values at a time while
\* four are left.
polymodBlock(chk, values, i) ==
  IF i + 3 <= Len(values)
  THEN Xor30(polymodStep(Xor30(polymodStep(Xor30(polymodStep(
         Xor30(polymodStep(chk), values[i])), values[i + 1])), values[i + 2])),
         values[i + 3])
  ELSE Xor30(polymodStep(chk), values[i])

polymodFrom(chk, values, i) ==
  IF i > Len(values) THEN chk
  ELSE polymodNext(polymodBlock(chk, values, i), values,
                   IF i + 3 <= Len(values) THEN i + 4 ELSE i + 1)

\* prefixChk: the high bits of every prefix character, a zero, the low bits.
prefixChk(prefix) ==
  polymodFrom(1, Seqd([i \in 1..(2 * Len(prefix) + 1) |->
                         IF i <= Len(prefix) THEN prefix[i] \div 32
                         ELSE IF i = Len(prefix) + 1 THEN 0
                         ELSE prefix[i - Len(prefix) - 1] % 32]), 1)

\* The six 5-bit words of the 30-bit value chk.
checksumWords(chk) == Seqd([i \in 1..6 |-> (chk \div (2 ^ ((6 - i) * 5))) % 32])

\* The six checksum words of encode for the encoding constant given.
createChecksum(prefix, words, ENCODING_CONST) ==
  checksumWords(Xor30(polymodFrom(prefixChk(prefix),
                                  words \o <<0, 0, 0, 0, 0, 0>>, 1),
                      ENCODING_CONST))

\* toWords: convert(bytes, 8, 5, pad = true).
toWords(bytes) ==
  LET nbits == 8 * Len(bytes)
      bit(k) == IF k >= nbits THEN 0
                ELSE (bytes[(k \div 8) + 1] \div (2 ^ (7 - (k % 8)))) % 2
  IN  Seqd([j \in 1..((nbits + 4) \div 5) |->
              16 * bit(5 * j - 5) + 8 * bit(5 * j - 4) + 4 * bit(5 * j - 3)
              + 2 * bit(5 * j - 2) + bit(5 * j - 1)])

HRP_qtc == <<113, 116, 99>>

\* getLibraryFromEncoding(encoding).encode(prefix, words): the text is
\* prefix + "1" + one character per data word and per checksum word; the
\* record keeps its three parts.  thrown: over the 90-character limit or a
\* word wider than five bits.
encodeWith(ENCODING_CONST, prefix, words) ==
  IF Len(prefix) + 7 + Len(words) > 90 \/ \E i \in 1..Len(words) : words[i] > 31
  THEN [thrown |-> TRUE, hrp |-> prefix, data |-> << >>, checksum |-> << >>]
  ELSE [thrown |-> FALSE, hrp |-> prefix, data |-> words,
        checksum |-> createChecksum(prefix, words, ENCODING_CONST)]

\* No address: what a variable holds before (or without) an encode.
NoAddress == [thrown |-> TRUE, hrp |-> << >>, data |-> << >>, checksum |-> << >>]

\* import { bech32 } from "bech32": the export built with the constant 1.
bech32_encode(prefix, words) == encodeWith(BECH32_CONST, prefix, words)

\* The 32 characters of the data part: qpzry9x8gf2tvdw0s3jn54khce6mua7l
ALPHABET ==
  <<113, 112, 122, 114, 121, 57, 120, 56, 103, 102, 50, 116, 118, 100, 119, 48,
    115, 51, 106, 110, 53, 52, 107, 104, 99, 101, 54, 109, 117, 97, 55, 108>>

\* The text encode returns: prefix + "1" + one character per data word and
\* per checksum word.
addressText(a) ==
  a.hrp \o <<49>> \o Seqd([i \in 1..(Len(a.data) + 6) |->
                            ALPHABET[(a.data \o a.checksum)[i] + 1]])

\* The position of the last "1" of a text, 0 without one.
RECURSIVE lastOne(_, _)
lastOne(text, i) ==
  IF i = 0 THEN 0 ELSE IF text[i] = 49 THEN i ELSE lastOne(text, i - 1)

\* The 5-bit word of a character of the data part, 32 for any other.
wordOf(ch) ==
  IF \E w \in 1..32: ALPHABET[w] = ch
  THEN (CHOOSE w \in 1..32: ALPHABET[w] = ch) - 1 ELSE 32

\* fromWords: convert(words, 5, 8, pad = false); it fails on more than four
\* bits of padding and on padding bits that are not zero.
fromWords(words) ==
  LET nbits == 5 * Len(words)
      bit(k) == (words[(k \div 5) + 1] \div (2 ^ (4 - (k % 5)))) % 2
  IN  IF nbits % 8 >= 5 \/ \E k \in (8 * (nbits \div 8))..(nbits - 1): bit(k) = 1
      THEN [ok |-> FALSE, out |-> << >>]
      ELSE [ok |-> TRUE,
            out |-> Seqd([j \in 1..(nbits \div 8) |->
                            128 * bit(8 * j - 8) + 64 * bit(8 * j - 7)
                            + 32 * bit(8 * j - 6) + 16 * bit(8 * j - 5)
                            + 8 * bit(8 * j - 4) + 4 * bit(8 * j - 3)
                            + 2 * bit(8 * j - 2) + bit(8 * j - 1)])]

\* What decode returns: the error kind ("none" without one) and the parts.
Decoded(error, hrp, witnessVersion, program) ==
  [error |-> error, hrp |-> hrp, witnessVersion |-> witnessVersion,
   program |-> program]

\* decode past the checksum: the first data value is the witness version,
\* the rest regroups into the program.
decodeWords(hrp, words) ==
  IF Len(words) < 1 THEN Decoded("FormatError", << >>, -1, << >>)
  ELSE IF words[1] > 31 THEN Decoded("VersionError", << >>, -1, << >>)
  ELSE IF ~fromWords(Tail(words)).ok THEN Decoded("FormatError", << >>, -1, << >>)
  ELSE Decoded("none", hrp, words[1], fromWords(Tail(words)).out)

\* decode of a text split at position sep, its data part turned into words,
\* for the checksum constant given.
decodeSplit(ENCODING_CONST, hrp, words) ==
  IF \E i \in 1..Len(words): words[i] > 31
  THEN Decoded("FormatError", << >>, -1, << >>)
  ELSE IF polymodFrom(prefixChk(hrp), words, 1) # ENCODING_CONST
  THEN Decoded("ChecksumError", << >>, -1, << >>)
  ELSE decodeWords(hrp, SubSeq(words, 1, Len(words) - 6))

decodeAt(ENCODING_CONST, text, sep) ==
  IF Len(text) < 8 \/ Len(text) > 90 \/ sep < 2 \/ Len(text) - sep < 6
  THEN Decoded("FormatError", << >>, -1, << >>)
  ELSE decodeSplit(ENCODING_CONST, SubSeq(text, 1, sep - 1),
                   Seqd([i \in 1..(Len(text) - sep) |-> wordOf(text[sep + i])]))

decodeWith(ENCODING_CONST, text) == decodeAt(ENCODING_CONST, text, lastOne(text, Len(text)))

\* decode(text) -> (hrp, witnessVersion, program), its checksum verified
\* with the bech32m constant.
decode(text) == decodeWith(BECH32M_CONST, text)

\* ------------------------------------------------------------- HD path
\* `${n}` for a non-negative integer: its decimal digits in ASCII.
RECURSIVE Dec(_)
Dec(n) ==
  IF n < 0 THEN <<45>> \o Dec(-n)
  ELSE IF n < 10 THEN <<48 + n>> ELSE Dec(n \div 10) \o <<48 + (n % 10)>>

\* new QTCHDPath(purpose, account, change, addressIndex)
QTCHDPath(purpose, account, change, addressIndex) ==
  [purpose |-> purpose, account |-> account, change |-> change,
   addressIndex |-> addressIndex]

\* new QTCHDPath(): constructor(purpose = 44, account = 0, change = 0, addressIndex = 0)
DefaultPath == QTCHDPath(DefaultPurpose, 0, 0, 0)

\* QTCHDPath.toString: m/purpose'/account'/change/addressIndex
PathToString(p) ==
  Concat(<< <<109, 47>>, Dec(p.purpose), <<39, 47>>, Dec(p.account), <<39, 47>>,
            Dec(p.change), <<47>>, Dec(p.addressIndex) >>)

\* The decimal digits 0-9.
Digits == 48..57

\* (\d*): digits, or nothing.
isDigitsOrEmpty(s) == \A i \in 1..Len(s): s[i] \in Digits

\* (\d+): one digit or more.
isDigits(s) == Len(s) >= 1 /\ \A i \in 1..Len(s): s[i] \in Digits

\* parseInt of a text of digits.
RECURSIVE parseInt(_)
parseInt(s) ==
  IF Len(s) = 0 THEN 0
  ELSE parseInt(SubSeq(s, 1, Len(s) - 1)) * 10 + (s[Len(s)] - 48)

\* The positions of the character '/' in a text, ascending.
RECURSIVE slashesFrom(_, _)
slashesFrom(s, i) ==
  IF i > Len(s) THEN << >>
  ELSE IF s[i] = 47 THEN <<i>> \o slashesFrom(s, i + 1)
  ELSE slashesFrom(s, i + 1)

\* What the match of /^m\/(\d+)'\/(\d+)'\/(\d+)\/(\d+)$/ leaves for a text
\* whose slashes are at the positions sl: no group holds a slash, so the
\* text matches only with four slashes, each group between two of them.
matchAt(s, sl) ==
  IF /\ Len(sl) = 4
     /\ sl[1] = 2 /\ s[1] = 109
     /\ sl[2] - sl[1] >= 3 /\ s[sl[2] - 1] = 39
     /\ sl[3] - sl[2] >= 3 /\ s[sl[3] - 1] = 39
     /\ isDigits(SubSeq(s, sl[1] + 1, sl[2] - 2))
     /\ isDigits(SubSeq(s, sl[2] + 1, sl[3] - 2))
     /\ isDigits(SubSeq(s, sl[3] + 1, sl[4] - 1))
     /\ isDigits(SubSeq(s, sl[4] + 1, Len(s)))
  THEN [matched |-> TRUE,
        groups |-> <<SubSeq(s, sl[1] + 1, sl[2] - 2), SubSeq(s, sl[2] + 1, sl[3] - 2),
                     SubSeq(s, sl[3] + 1, sl[4] - 1), SubSeq(s, sl[4] + 1, Len(s))>>]
  ELSE [matched |-> FALSE, groups |-> << >>]

\* The path of a failed fromString.
NoPath == [purpose |-> -1, account |-> -1, change |-> -1, addressIndex |-> -1]

\* The tail of fromString: throw without a match, else the path of the
\* four parsed groups.
pathOfMatch(match) ==
  IF ~match.matched THEN [thrown |-> TRUE, path |-> NoPath]
  ELSE [thrown |-> FALSE,
        path |-> QTCHDPath(parseInt(match.groups[1]), parseInt(match.groups[2]),
                           parseInt(match.groups[3]), parseInt(match.groups[4]))]

\* QTCHDPath.fromString(pathString)
fromString(pathString) == pathOfMatch(matchAt(pathString, slashesFrom(pathString, 1)))

\* A JavaScript integer of any magnitude: its sign, and its magnitude as
\* hi * 65536 + lo with lo below 65536 (integers here end at 2^31 - 1).
Wide(neg, hi, lo) == [neg |-> neg, hi |-> hi, lo |-> lo]

wideOf(n) ==
  IF n < 0 THEN Wide(TRUE, (-n) \div 65536, (-n) % 65536)
  ELSE Wide(FALSE, n \div 65536, n % 65536)

\* The decimal digits of hi * 65536 + lo, by long division by ten.
RECURSIVE DecMagnitude(_, _)
DecMagnitude(hi, lo) ==
  IF hi = 0 /\ lo < 10 THEN <<48 + lo>>
  ELSE DecMagnitude(hi \div 10, ((hi % 10) * 65536 + lo) \div 10)
         \o <<48 + (((hi % 10) * 65536 + lo) % 10)>>

\* `${index}` in toString, for an index of any magnitude.
DecWide(w) ==
  (IF w.neg /\ (w.hi > 0 \/ w.lo > 0) THEN <<45>> ELSE << >>) \o DecMagnitude(w.hi, w.lo)

\* A range check that lets every value pass.
neverOutOfRange(w) == FALSE

\* The range check of writeUInt32BE: ERR_OUT_OF_RANGE is thrown unless
\* 0 <= value <= 2^32 - 1.
outOfRange(w) == (w.neg /\ (w.hi > 0 \/ w.lo > 0)) \/ w.hi > 65535

\* The four bytes writeUInt32BE writes for a value past its range check.
writeUInt32BEWide(w) ==
  <<(w.hi % 65536) \div 256, w.hi % 256, w.lo \div 256, w.lo % 256>>

\* Buffer.alloc(4).writeUInt32BE(index, 0), past its range check
writeUInt32BE(index) ==
  <<(index \div 16777216) % 256, (index \div 65536) % 256,
    (index \div 256) % 256, index % 256>>


\* ------------------------------------------------------------- HD node
\* new QTCHDNode(masterEntropy, path)
QTCHDNode(masterEntropy, path) ==
  [masterEntropy |-> masterEntropy, path |-> path, chainCode |-> Null,
   privateKey |-> Null, publicKey |-> Null]

\* A child that takes the keys of the node it was derived from.
childSharingKeys(this, childPath, childEntropy) ==
  [this |-> this,
   result |-> [QTCHDNode(childEntropy, childPath) EXCEPT !.publicKey = this.publicKey,
                                                         !.privateKey = this.privateKey],
   thrown |-> FALSE]

\* The return of deriveChild: the node called on and the node returned.
childOf(this, childPath, childEntropy) ==
  [this |-> this, result |-> QTCHDNode(childEntropy, childPath), thrown |-> FALSE]

\* deriveChild left by the RangeError of writeUInt32BE: no node is returned.
childThrown(this) ==
  [this |-> this, result |-> QTCHDNode(Null, NoPath), thrown |-> TRUE]

\* Derivation data with the path text absorbed before the parent entropy.
derivationDataPathFirst(this, childPath, index) ==
  Concat(<<PathToString(childPath), this.masterEntropy, writeUInt32BE(index)>>)

\* The derivation data hashed for a child: parent entropy || path || index.
derivationData(this, childPath, index) ==
  Concat(<<this.masterEntropy, PathToString(childPath), writeUInt32BE(index)>>)

deriveChildAt(this, childPath, index) ==
  childOf(this, childPath, SHA3_512(derivationData(this, childPath, index)))

\* A derivation that threads state: the node called on takes the entropy of
\* the child it returned.
chained(dc) == [this |-> [dc.this EXCEPT !.masterEntropy = dc.result.masterEntropy],
                result |-> dc.result, thrown |-> dc.thrown]

deriveChildChaining(this, index) ==
  chained(deriveChildAt(this, QTCHDPath(this.path.purpose, this.path.account,
                                        this.path.change, index), index))

\* QTCHDNode.deriveChild(index), for an index below 2^31.
deriveChild(this, index) ==
  IF outOfRange(wideOf(index)) THEN childThrown(this)
  ELSE deriveChildAt(this, QTCHDPath(this.path.purpose, this.path.account,
                                     this.path.change, index), index)

\* The text of the child path for an index of any magnitude.
childPathText(this, w) ==
  Concat(<< <<109, 47>>, Dec(this.path.purpose), <<39, 47>>, Dec(this.path.account),
            <<39, 47>>, Dec(this.path.change), <<47>>, DecWide(w) >>)

\* QTCHDNode.deriveChild(index), for an index of any magnitude: the child
\* path keeps the index as it was given.
deriveChildOf(this, w) ==
  IF outOfRange(w) THEN childThrown(this)
  ELSE IF ~w.neg /\ w.hi < 32768 THEN deriveChild(this, w.hi * 65536 + w.lo)
  ELSE childOf(this,
               QTCHDPath(this.path.purpose, this.path.account, this.path.change, w),
               SHA3_512(Concat(<<this.masterEntropy, childPathText(this, w),
                                 writeUInt32BEWide(w)>>)))

\* The two providers of the lattice primitives.
Providers == {"cli", "noble"}

\* The faults a provider call can meet: call is "kem" or "sig".
Faults(provider, call) ==
  IF provider = "cli"
  THEN (IF call = "kem" THEN CliFaults ELSE CliFaults \ {"encaps"})
  ELSE (IF call = "kem" THEN {"none", "throw", "throw_encaps"} ELSE {"none", "throw"})

\* res.status !== 0
statusFailed(status) == status # 0

\* What a signature keygen that threw leaves.
SigThrown(seedGiven) ==
  [thrown |-> TRUE, publicKey |-> Null, secretKey |-> Null, seedGiven |-> seedGiven]

\* The lines after spawnSync(..., ['gen_dilithium_from_seed', seed_hex]):
\* the status check, JSON.parse, Buffer.from(..., 'base64').
sigFromCli(res) ==
  IF statusFailed(res.status) THEN SigThrown(res.seed)
  ELSE [thrown |-> FALSE,
        publicKey |-> b64_decode(res.stdout.dilithium_public_b64),
        secretKey |-> b64_decode(res.stdout.dilithium_private_b64),
        seedGiven |-> res.seed]

\* ml_dsa65.keygen(seed)
sigFromNoble(keyPair, seed) ==
  [thrown |-> FALSE, publicKey |-> keyPair.publicKey,
   secretKey |-> keyPair.secretKey, seedGiven |-> seed]

\* Signature keygen from a 32-byte seed under the provider given; seedGiven
\* is the seed the provider's keygen received.
sigKeygen(provider, seed, fault) ==
  IF provider = "cli"
  THEN sigFromCli(spawnSync("gen_dilithium_from_seed", toHex(seed), fault))
  ELSE IF fault # "none" THEN SigThrown(seed)
  ELSE sigFromNoble(MLDSA_KeyGen(seed), seed)

\* The assignments of generateKeyPair after the keygen.
nodeWithKeys(this, out) ==
  IF out.thrown
  THEN [this |-> this, thrown |-> TRUE, seedGiven |-> out.seedGiven]
  ELSE [this |-> [this EXCEPT !.publicKey = out.publicKey,
                              !.privateKey = out.secretKey],
        thrown |-> FALSE, seedGiven |-> out.seedGiven]

\* QTCHDNode.generateKeyPair(): the node as the call leaves it.
generateKeyPair(this, provider, fault) ==
  nodeWithKeys(this, sigKeygen(provider, Take(this.masterEntropy, DilithiumSeedLen),
                               fault))

\* bech32.encode("qtc", [witnessVersion, ...bech32.toWords(program)])
encodeAddress(witnessVersion, program) ==
  bech32_encode(HRP_qtc, <<witnessVersion>> \o toWords(program))

\* An HD address encoded under the witness version of the Primary method.
addressOfBytesV1(addressBytes) ==
  [thrown |-> FALSE, address |-> encodeAddress(1, addressBytes),
   addressBytes |-> addressBytes]

\* The tail of generateAddress: witness version 2 over the address bytes.
addressOfBytes(addressBytes) ==
  [thrown |-> FALSE, address |-> encodeAddress(2, addressBytes),
   addressBytes |-> addressBytes]

\* An address whose program is hashed from the node's entropy.
generateAddressOfEntropy(this) ==
  IF this.publicKey = Null
  THEN [thrown |-> TRUE, address |-> NoAddress, addressBytes |-> Null]
  ELSE addressOfBytes(Take(SHA3_256(this.masterEntropy), ProgramLen))

\* QTCHDNode.generateAddress(): the program hashed from the node's own
\* public key.
generateAddress(this) ==
  IF this.publicKey = Null
  THEN [thrown |-> TRUE, address |-> NoAddress, addressBytes |-> Null]
  ELSE addressOfBytes(Take(SHA3_256(this.publicKey), ProgramLen))

\* ------------------------------------------------------ KEM bootstrap
KemThrown(publicKey, secretKey, draws) ==
  [thrown |-> TRUE, publicKey |-> publicKey, secretKey |-> secretKey,
   sharedSecret |-> Null, rngDraws |-> draws]

\* The lines after spawnSync(cli, ["kem_self_from_seed", seed_hex]).
kemFromCli(r1) ==
  IF statusFailed(r1.status) THEN KemThrown(Null, Null, 0)
  ELSE [thrown |-> FALSE,
        publicKey |-> b64_decode(r1.stdout.kyber_public_b64),
        secretKey |-> b64_decode(r1.stdout.kyber_private_b64),
        sharedSecret |-> b64_decode(r1.stdout.shared_b64),
        rngDraws |-> 0]

\* ml_kem1024.encapsulate(pk) is called with no message argument: the
\* message is the library's own randomBytes(32), the value encRnd of the
\* OS random source.
kemFromNoble(kyberKeyPair, encRnd, fault) ==
  IF fault = "throw_encaps"
  THEN KemThrown(kyberKeyPair.publicKey, kyberKeyPair.secretKey, 1)
  ELSE [thrown |-> FALSE,
        publicKey |-> kyberKeyPair.publicKey,
        secretKey |-> kyberKeyPair.secretKey,
        sharedSecret |-> MLKEM_Encaps(kyberKeyPair.publicKey,
                                      randomBytes(EncapsMsgLen, encRnd)).sharedSecret,
        rngDraws |-> 1]

\* Step 1 of every script: a KEM keypair from the seed and a shared secret
\* by encapsulating against the own public key.
kemSelf(provider, seed, encRnd, fault) ==
  IF provider = "cli"
  THEN kemFromCli(spawnSync("kem_self_from_seed", toHex(seed), fault))
  ELSE IF fault = "throw" THEN KemThrown(Null, Null, 0)
  ELSE kemFromNoble(MLKEM_KeyGen(seed), encRnd, fault)

\* A provisional seed cut from the shared secret itself.
provisionalSeedOfSecret(sharedSecret) == Take(sharedSecret, DilithiumSeedLen)

\* SHAKE256(sharedSecret || "QTC_PQHD_DILITHIUM") -> 32 bytes
provisionalSeed(sharedSecret) ==
  SHAKE256(sharedSecret \o TAG_QTC_PQHD_DILITHIUM, DilithiumSeedLen)

\* --------------------------------------------------- QTCPQHDWallet class
NullNode == QTCHDNode(Null, QTCHDPath(-1, -1, -1, -1))

\* new QTCPQHDWallet()
QTCPQHDWallet ==
  [kyberPublicKey |-> Null, kyberSecretKey |-> Null, sharedSecret |-> Null,
   masterEntropy |-> Null, masterNode |-> NullNode]

\* generateMaster, step 1: the assignments after the KEM.
gmKem(this, kem) ==
  IF kem.thrown
  THEN [this |-> IF kem.publicKey = Null THEN this
                 ELSE [this EXCEPT !.kyberPublicKey = kem.publicKey,
                                   !.kyberSecretKey = kem.secretKey],
        thrown |-> TRUE]
  ELSE [this |-> [this EXCEPT !.kyberPublicKey = kem.publicKey,
                              !.kyberSecretKey = kem.secretKey,
                              !.sharedSecret = kem.sharedSecret],
        thrown |-> FALSE]

\* generateMaster, step 4, first line: this.masterNode = new QTCHDNode(...)
gmNode(this, masterEntropy, di) ==
  [this |-> [this EXCEPT !.masterEntropy = masterEntropy,
                         !.masterNode = QTCHDNode(masterEntropy, DefaultPath)],
   thrown |-> FALSE, di |-> di]

\* generateMaster, step 3: SHA3-512(sharedSecret || dilithiumPublicKey).
gmEntropy(this, di) ==
  IF di.thrown THEN [this |-> this, thrown |-> TRUE, di |-> di]
  ELSE gmNode(this, SHA3_512(this.sharedSecret \o di.publicKey), di)

\* generateMaster with a provisional seed hashed without the tag.
gmProvisionalUntagged(this, provider, fault) ==
  gmEntropy(this, sigKeygen(provider, SHAKE256(this.sharedSecret, DilithiumSeedLen),
                            fault))

\* generateMaster, steps 2-4 up to the creation of the master node.
gmProvisional(this, provider, fault) ==
  gmEntropy(this, sigKeygen(provider, provisionalSeed(this.sharedSecret), fault))

\* generateMaster, the return of await this.masterNode.generateKeyPair().
gmReturn(this, kp) ==
  [this |-> [this EXCEPT !.masterNode = kp.this], thrown |-> kp.thrown]

\* generateMaster, step 4, second line.
gmNodeKeygen(this, provider, fault) ==
  gmReturn(this, generateKeyPair(this.masterNode, provider, fault))

\* One entry of the addresses array.
AddressEntry(i, childNode, address) ==
  [index |-> i, path |-> PathToString(childNode.path), address |-> address,
   dilithium_public_b64  |-> b64_encode(childNode.publicKey),
   dilithium_private_b64 |-> b64_encode(childNode.privateKey)]

NoEntry ==
  [index |-> -1, path |-> << >>, address |-> NoAddress,
   dilithium_public_b64 |-> << >>, dilithium_private_b64 |-> << >>]

\* The values of the locals of one loop iteration.
NoIteration == [childNode |-> NullNode, seedGiven |-> Null, addressBytes |-> Null]

\* generateAddresses, loop body from addresses.push on.
gaPush(this, kp, ga, i) ==
  [this |-> this, thrown |-> ga.thrown,
   entry |-> AddressEntry(i, kp.this, ga.address),
   iteration |-> [childNode |-> kp.this, seedGiven |-> kp.seedGiven,
                  addressBytes |-> ga.addressBytes]]

\* generateAddresses, loop body after await childNode.generateKeyPair().
gaKeys(this, kp, i) ==
  IF kp.thrown
  THEN [this |-> this, thrown |-> TRUE, entry |-> NoEntry, iteration |-> NoIteration]
  ELSE gaPush(this, kp, generateAddress(kp.this), i)

\* A loop body that gives every child the provisional keypair of
\* generateMaster.
gaChildProvisional(this, dc, i, provider, fault) ==
  gaKeys([this EXCEPT !.masterNode = dc.this],
         nodeWithKeys(dc.result,
                      sigKeygen(provider, provisionalSeed(this.sharedSecret), fault)),
         i)

\* generateAddresses, loop body after this.masterNode.deriveChild(i).
gaChild(this, dc, i, provider, fault) ==
  gaKeys([this EXCEPT !.masterNode = dc.this],
         generateKeyPair(dc.result, provider, fault), i)

\* generateAddresses, one iteration of the for loop.  account and change are
\* the parameters of the method.
gaIteration(this, i, account, change, provider, fault) ==
  gaChild(this, deriveChild(this.masterNode, i), i, provider, fault)

\* generateAddresses: if (!this.masterNode) throw ...
gaGuard(this) == this.masterNode = NullNode

\* No wallet JSON.
NoWallet == [none |-> TRUE]

\* QTCPQHDWallet.exportWallet(addresses)
exportWallet(this, addresses) ==
  [none |-> FALSE,
   wallet_type |-> "QTC-PQHD-HD",
   witness_version |-> 2,
   master |-> [kyber_public_b64  |-> b64_encode(this.kyberPublicKey),
               kyber_private_b64 |-> b64_encode(this.kyberSecretKey),
               kyber_shared_secret_b64 |-> b64_encode(this.sharedSecret),
               master_entropy_b64 |-> b64_encode(this.masterEntropy)],
   addresses |-> addresses,
   total_addresses |-> Len(addresses)]

\* --------------------------------------------- single-address scripts
\* What steps 2-5 of a single-address script leave behind: whether they
\* threw, the locals, and the wallet object assembled.
Locals(thrown, entropy, sig, addressBytes, address, wallet) ==
  [thrown |-> thrown, entropy |-> entropy, seedGiven |-> sig.seedGiven,
   dilithium_pk |-> sig.publicKey, dilithium_sk |-> sig.secretKey,
   addressBytes |-> addressBytes, address |-> address, wallet |-> wallet]

Threw(entropy, sig) == Locals(TRUE, entropy, sig, Null, NoAddress, NoWallet)

\* The wallet object of the Primary scripts.
PrimaryWallet(address, entropy, kem, sig) ==
  [none |-> FALSE, address |-> address,
   entropy_b64 |-> b64_encode(entropy),
   kyber_public_b64 |-> b64_encode(kem.publicKey),
   kyber_private_b64 |-> b64_encode(kem.secretKey),
   dilithium_public_b64 |-> b64_encode(sig.publicKey),
   dilithium_private_b64 |-> b64_encode(sig.secretKey),
   shared_secret_b64 |-> b64_encode(kem.sharedSecret)]

\* The pqhd_wallet object of the Single PQ-HD scripts.
PqhdWallet(address, master_entropy, kem, sig, combined_input) ==
  [none |-> FALSE, address |-> address, method |-> "PQ-HD", witness_version |-> 2,
   master_entropy_b64 |-> b64_encode(master_entropy),
   kyber_public_b64 |-> b64_encode(kem.publicKey),
   kyber_private_b64 |-> b64_encode(kem.secretKey),
   dilithium_public_b64 |-> b64_encode(sig.publicKey),
   dilithium_private_b64 |-> b64_encode(sig.secretKey),
   kyber_shared_secret_b64 |-> b64_encode(kem.sharedSecret),
   combined_input_b64 |-> b64_encode(combined_input)]

\* Step 5 of the Primary scripts.
primaryAssemble(kem, entropy, sig, addressBytes, address) ==
  Locals(FALSE, entropy, sig, addressBytes, address,
         PrimaryWallet(address, entropy, kem, sig))

\* qti2.js step 4 c): bech32.encode("qtc", bech32.toWords(addressBytes)).
qti2Address(kem, entropy, sig, addressBytes) ==
  primaryAssemble(kem, entropy, sig, addressBytes,
                  bech32_encode(HRP_qtc, toWords(addressBytes)))

\* qti2.js step 4 a), b): the first 20 bytes of SHA3-256(dilithium_pk).
qti2Hash(kem, entropy, sig) ==
  IF sig.thrown THEN Threw(entropy, sig)
  ELSE qti2Address(kem, entropy, sig, Take(SHA3_256(sig.publicKey), ProgramLen))

\* qti2.js step 3: ml_dsa65.keygen(entropy.slice(0, 32)).
qti2Keys(kem, entropy, fault) ==
  qti2Hash(kem, entropy, sigKeygen("noble", Take(entropy, DilithiumSeedLen), fault))

\* qti2.js generateWallet, steps 2-5; step 2: SHA3-512(sharedSecret).
generateWallet_qti2(kem, fault) == qti2Keys(kem, SHA3_512(kem.sharedSecret), fault)

\* qtc2.js step 4 c): witness version 1 in front of the words.
qtc2Address(kem, entropy, sig, addressBytes) ==
  primaryAssemble(kem, entropy, sig, addressBytes, encodeAddress(1, addressBytes))

\* qtc2.js step 4 a), b).
qtc2Hash(kem, entropy, sig) ==
  IF sig.thrown THEN Threw(entropy, sig)
  ELSE qtc2Address(kem, entropy, sig, Take(SHA3_256(sig.publicKey), ProgramLen))

\* qtc2.js step 3.
qtc2Keys(kem, entropy, fault) ==
  qtc2Hash(kem, entropy, sigKeygen("noble", Take(entropy, DilithiumSeedLen), fault))

\* qtc2.js generateWallet, steps 2-5; step 2: SHAKE256(sharedSecret) -> 64.
generateWallet_qtc2(kem, fault) ==
  qtc2Keys(kem, SHAKE256(kem.sharedSecret, MasterLen), fault)

\* qti3.js step 5: the pqhd_wallet object.
qti3Assemble(kem, sig, combined_input, master_entropy, addressBytes, address) ==
  Locals(FALSE, master_entropy, sig, addressBytes, address,
         PqhdWallet(address, master_entropy, kem, sig, combined_input))

\* qti3.js step 4 c).
qti3Address(kem, sig, combined_input, master_entropy, addressBytes) ==
  qti3Assemble(kem, sig, combined_input, master_entropy, addressBytes,
               encodeAddress(2, addressBytes))

\* Step 4 with the whole digest taken as the address program.
qti3HashUncut(kem, sig, combined_input, master_entropy) ==
  qti3Address(kem, sig, combined_input, master_entropy, SHA3_256(master_entropy))

\* qti3.js step 4 a), b): the first 20 bytes of SHA3-256(master_entropy).
qti3Hash(kem, sig, combined_input, master_entropy) ==
  qti3Address(kem, sig, combined_input, master_entropy,
              Take(SHA3_256(master_entropy), ProgramLen))

\* qti3.js step 3: SHAKE256(combined_input) -> 64 bytes.
qti3Master(kem, sig, combined_input) ==
  qti3Hash(kem, sig, combined_input, SHAKE256(combined_input, MasterLen))

\* qti3.js step 3 with the tag of step 2 absorbed between the two parts.
qti3CombinedTagged(kem, sig) ==
  IF sig.thrown THEN Threw(Null, sig)
  ELSE qti3Master(kem, sig,
                  Concat(<<kem.sharedSecret, TAG_QTC_PQHD_DILITHIUM, sig.publicKey>>))

\* qti3.js after step 2: combined_input = sharedSecret || dilithium_pk.
qti3Combined(kem, sig) ==
  IF sig.thrown THEN Threw(Null, sig)
  ELSE qti3Master(kem, sig, kem.sharedSecret \o sig.publicKey)

\* qti3.js generatePQHDWallet, steps 2-5.
generatePQHDWallet_qti3(kem, fault) ==
  qti3Combined(kem, sigKeygen("cli", provisionalSeed(kem.sharedSecret), fault))

\* Step 5 with the combined_input_b64 field left out of the object.
nobleAssembleWithoutField(sig, master_entropy, addressBytes, address) ==
  Locals(FALSE, master_entropy, sig, addressBytes, address,
         [none |-> FALSE, address |-> address,
          master_entropy_b64 |-> b64_encode(master_entropy)])

\* The noble-based script, step 5: the object literal reads combined_input,
\* which the function never declares, so evaluating it throws a
\* ReferenceError and no wallet object exists.
nobleAssemble(sig, master_entropy, addressBytes, address) ==
  Locals(TRUE, master_entropy, sig, addressBytes, address, NoWallet)

\* The noble-based script, step 4 c).
nobleAddress(sig, master_entropy, addressBytes) ==
  nobleAssemble(sig, master_entropy, addressBytes, encodeAddress(2, addressBytes))

\* The noble-based script, step 4 a), b).
nobleHash(sig, master_entropy) ==
  nobleAddress(sig, master_entropy, Take(SHA3_256(master_entropy), ProgramLen))

\* The noble-based script, step 3: two updates, sharedSecret then dilithium_pk.
nobleMaster(kem, sig) ==
  IF sig.thrown THEN Threw(Null, sig)
  ELSE nobleHash(sig, SHAKE256(kem.sharedSecret \o sig.publicKey, MasterLen))

\* The noble-based generatePQHDWallet, steps 2-5.
generatePQHDWallet_noble(kem, fault) ==
  nobleMaster(kem, sigKeygen("noble", provisionalSeed(kem.sharedSecret), fault))

\* ------------------------------------------------------------ the scripts
Scripts == {"qti2.js", "qtc2.js", "qti3.js", "qti3_noble.js",
            "qti3_hd.js", "qti3_hd_noble.js"}

HdScripts == {"qti3_hd.js", "qti3_hd_noble.js"}

\* The provider a script takes its lattice primitives from.
ProviderOf(script) == IF script \in {"qti3.js", "qti3_hd.js"} THEN "cli" ELSE "noble"

\* The file name a script passes to fs.writeFileSync.
FileOf(script) ==
  IF script \in {"qti2.js", "qtc2.js"} THEN "qti2_wallet.json"
  ELSE IF script \in HdScripts THEN "qti3_pqhd_hd_wallet.json"
  ELSE "qti3_pqhd_wallet.json"

FileNames == {FileOf(s) : s \in Scripts}

\* Steps 2-5 of a single-address script.
generateSingle(script, kem, fault) ==
  IF script = "qti2.js" THEN generateWallet_qti2(kem, fault)
  ELSE IF script = "qtc2.js" THEN generateWallet_qtc2(kem, fault)
  ELSE IF script = "qti3.js" THEN generatePQHDWallet_qti3(kem, fault)
  ELSE generatePQHDWallet_noble(kem, fault)

\* ensureCliBuilt(): builds the provider binary when fs.existsSync fails;
\* exit is the process.exit(1) of a failed build.
ensureCliBuilt(exists, buildOk) ==
  [exit |-> ~exists /\ ~buildOk, cliBin |-> exists \/ buildOk]

\* parseInt(args[i]) || dflt, for arguments that are digit strings.
argOr(argv, i, dflt) ==
  IF Len(argv) >= i /\ argv[i] # 0 THEN argv[i] ELSE dflt

\* The command lines tried: count alone, and count with account and change.
Argvs(script) ==
  IF script \in HdScripts
  THEN {<< >>} \cup {<<c>> : c \in 1..MaxCount}
       \cup ({<<1, a, c>> : a \in 0..1, c \in 0..1} \ {<<1, 0, 0>>})
  ELSE {<< >>}

VARIABLES run, files, cliBin, obj, cli, call
vars == <<run, files, cliBin, obj, cli, call>>

Procs == {1, 2}

NoKem == KemThrown(Null, Null, 0)

NoLocals == Threw(Null, SigThrown(Null))

\* A process not started.
IdleRun ==
  [pc |-> "idle", script |-> "", argv |-> << >>, seed |-> Null,
   rngDraws |-> 0, providerCalls |-> 0, providerFailed |-> FALSE,
   failedAt |-> -1, exitCode |-> -1, stdout |-> NoWallet, wrote |-> FALSE,
   kem |-> NoKem, loc |-> NoLocals, this |-> QTCPQHDWallet,
   provisionalPk |-> Null, count |-> 0, account |-> 0, change |-> 0, i |-> 0,
   addresses |-> << >>, iters |-> << >>, walletData |-> NoWallet]

\* A file truncated by a write that failed part way.
Truncated == [none |-> FALSE, truncated |-> TRUE]

\* An object of the class not under test.
NoObj ==
  [pc |-> "none", provider |-> "", this |-> QTCPQHDWallet, calls |-> 0,
   masterOk |-> FALSE, guardThrew |-> FALSE, i |-> 0, count |-> 0,
   addresses |-> << >>, iters |-> << >>, history |-> << >>]

\* No provider process under test.
NoCli ==
  [pc |-> "none", argv |-> CliArgv(0, "", << >>), fault |-> "none",
   status |-> -1, stdout |-> [none |-> TRUE], stderr |-> ""]

\* No method call under test.
NoCall == [pc |-> "none"]

Init ==
  /\ run = [p \in Procs |-> IdleRun]
  /\ files = [f \in FileNames |-> NoWallet]
  /\ cliBin = FALSE
  /\ obj = NoObj
  /\ cli = NoCli
  /\ call = NoCall

\* process.exit(code) on an error path: the process is gone, its locals
\* with it.
ExitWith(r, code) ==
  [IdleRun EXCEPT !.pc = "exit", !.script = r.script, !.argv = r.argv,
                  !.exitCode = code, !.rngDraws = r.rngDraws,
                  !.providerCalls = r.providerCalls,
                  !.providerFailed = r.providerFailed, !.failedAt = r.failedAt,
                  !.wrote = r.wrote]

\* An error path that ends the process with status 0.
Exit0AfterError(r) == ExitWith(r, 0)

\* process.exit(1)
Exit1(r) == ExitWith(r, 1)

\* A provider call failed: the scripts' error paths.
Failed(r, fault) ==
  Exit1([r EXCEPT !.providerFailed = (fault # "none"),
                  !.failedAt = r.providerCalls])

\* The outcomes of the build inside ensureCliBuilt.
BuildOutcomes(script) ==
  IF ProviderOf(script) = "cli" /\ ~cliBin THEN BOOLEAN ELSE {TRUE}

\* The values of the library's own randomBytes(32) that matter.
EncDraws(script, fault) ==
  IF ProviderOf(script) = "noble" /\ fault = "none" THEN 1..RngValues ELSE {1}

\* node <script> <argv>; the second process repeats the first's command
\* line once the first has exited.
Start(p) ==
  /\ run[p].pc = "idle"
  /\ p = 1 \/ run[1].pc = "exit"
  /\ \E script \in (IF p = 1 THEN Scripts ELSE {run[1].script}):
       \E argv \in (IF p = 1 THEN Argvs(script) ELSE {run[1].argv}):
         run' = [run EXCEPT ![p] = [IdleRun EXCEPT !.pc = "kem",
                                                   !.script = script,
                                                   !.argv = argv]]
  /\ UNCHANGED <<files, cliBin, obj, cli, call>>

\* The locals after step 1.
afterKem(r, seed, kem, fault) ==
  IF kem.thrown
  THEN Failed([r EXCEPT !.rngDraws = 1 + kem.rngDraws], fault)
  ELSE [r EXCEPT !.pc = IF r.script \in HdScripts THEN "provisional" ELSE "keys",
                 !.seed = seed, !.kem = kem, !.rngDraws = 1 + kem.rngDraws,
                 !.providerCalls = 1, !.providerFailed = (fault # "none"),
                 !.this = IF r.script \in HdScripts THEN gmKem(r.this, kem).this
                          ELSE r.this]

drawAndKem(r, seed, encRnd, fault) ==
  afterKem(r, seed, kemSelf(ProviderOf(r.script), seed, encRnd, fault), fault)

\* Step 1: crypto.randomBytes(64), then the KEM keypair and the shared
\* secret under the script's provider.
Kem(p) ==
  /\ run[p].pc = "kem"
  /\ \E buildOk \in BuildOutcomes(run[p].script):
       IF ensureCliBuilt(cliBin, buildOk).exit
       THEN /\ run' = [run EXCEPT ![p] = Exit1(@)]
            /\ UNCHANGED cliBin
       ELSE \E seedRnd \in 1..RngValues:
              \E fault \in Faults(ProviderOf(run[p].script), "kem"):
                \E encRnd \in EncDraws(run[p].script, fault):
                  /\ run' = [run EXCEPT ![p] =
                               drawAndKem(@, randomBytes(SeedLen, seedRnd),
                                          encRnd, fault)]
                  /\ cliBin' = IF ProviderOf(run[p].script) = "cli"
                               THEN ensureCliBuilt(cliBin, buildOk).cliBin
                               ELSE cliBin
  /\ UNCHANGED <<files, obj, cli, call>>

afterKeys(r, loc, fault) ==
  IF loc.thrown THEN Failed(r, fault)
  ELSE [r EXCEPT !.pc = "write", !.loc = loc, !.walletData = loc.wallet,
                 !.providerCalls = @ + 1, !.providerFailed = (fault # "none")]

\* Steps 2-5 of a single-address script.
Keys(p) ==
  /\ run[p].pc = "keys"
  /\ \E fault \in Faults(ProviderOf(run[p].script), "sig"):
       run' = [run EXCEPT ![p] =
                 afterKeys(@, generateSingle(@.script, @.kem, fault), fault)]
  /\ UNCHANGED <<files, cliBin, obj, cli, call>>

afterProvisional(r, g, fault) ==
  IF g.thrown THEN Failed(r, fault)
  ELSE [r EXCEPT !.pc = "nodekeygen", !.this = g.this,
                 !.provisionalPk = g.di.publicKey, !.providerCalls = @ + 1,
                 !.providerFailed = (fault # "none")]

\* generateMaster of the HD scripts up to the creation of the master node.
HdProvisional(p) ==
  /\ run[p].pc = "provisional"
  /\ \E fault \in Faults(ProviderOf(run[p].script), "sig"):
       run' = [run EXCEPT ![p] =
                 afterProvisional(@, gmProvisional(@.this, ProviderOf(@.script),
                                                   fault), fault)]
  /\ UNCHANGED <<files, cliBin, obj, cli, call>>

\* main after generateMaster returned: the arguments of generateAddresses
\* and its guard.
afterNodeKeygen(r, g, fault) ==
  IF g.thrown THEN Failed(r, fault)
  ELSE IF gaGuard(g.this) THEN Exit1(r)
  ELSE [r EXCEPT !.pc = "derive", !.this = g.this, !.providerCalls = @ + 1,
                 !.providerFailed = (fault # "none"),
                 !.count = argOr(r.argv, 1, DefaultCount),
                 !.account = argOr(r.argv, 2, 0),
                 !.change = argOr(r.argv, 3, 0),
                 !.i = 0, !.addresses = << >>, !.iters = << >>]

\* The master node's keygen, the return of generateMaster and the entry of
\* generateAddresses.
HdNodeKeygen(p) ==
  /\ run[p].pc = "nodekeygen"
  /\ \E fault \in Faults(ProviderOf(run[p].script), "sig"):
       run' = [run EXCEPT ![p] =
                 afterNodeKeygen(@, gmNodeKeygen(@.this, ProviderOf(@.script),
                                                 fault), fault)]
  /\ UNCHANGED <<files, cliBin, obj, cli, call>>

\* A loop that puts each new entry in front of the earlier ones.
afterIterationPrepending(r, it, fault) ==
  IF it.thrown THEN Failed(r, fault)
  ELSE [r EXCEPT !.this = it.this, !.i = @ + 1, !.providerCalls = @ + 1,
                 !.providerFailed = (fault # "none"),
                 !.addresses = <<it.entry>> \o @,
                 !.iters = <<it.iteration>> \o @]

afterIteration(r, it, fault) ==
  IF it.thrown THEN Failed(r, fault)
  ELSE [r EXCEPT !.this = it.this, !.i = @ + 1, !.providerCalls = @ + 1,
                 !.providerFailed = (fault # "none"),
                 !.addresses = Append(@, it.entry),
                 !.iters = Append(@, it.iteration)]

\* One iteration of the loop of generateAddresses.
HdAddress(p) ==
  /\ run[p].pc = "derive"
  /\ run[p].i < run[p].count
  /\ \E fault \in Faults(ProviderOf(run[p].script), "sig"):
       run' = [run EXCEPT ![p] =
                 afterIteration(@, gaIteration(@.this, @.i, @.account, @.change,
                                               ProviderOf(@.script), fault),
                                fault)]
  /\ UNCHANGED <<files, cliBin, obj, cli, call>>

\* The loop ends; generateAddresses returns; wallet.exportWallet(addresses).
HdExport(p) ==
  /\ run[p].pc = "derive"
  /\ run[p].i >= run[p].count
  /\ run' = [run EXCEPT ![p] =
               [@ EXCEPT !.pc = "write",
                         !.walletData = exportWallet(run[p].this,
                                                    run[p].addresses)]]
  /\ UNCHANGED <<files, cliBin, obj, cli, call>>

\* A script that goes on to print its wallet whatever became of the write.
WriteFileThenPrintAnyway(p) ==
  /\ run[p].pc = "write"
  /\ \E outcome \in {"ok", "open", "io"}:
       /\ run' = [run EXCEPT ![p] = [@ EXCEPT !.pc = "print",
                                              !.wrote = (outcome = "ok")]]
       /\ files' = IF outcome = "ok"
                   THEN [files EXCEPT ![FileOf(run[p].script)] = run[p].walletData]
                   ELSE IF outcome = "io"
                   THEN [files EXCEPT ![FileOf(run[p].script)] = Truncated]
                   ELSE files
  /\ UNCHANGED <<cliBin, obj, cli, call>>

\* fs.writeFileSync(name, JSON.stringify(wallet)): it succeeds, fails before
\* the file is opened, or fails after the file was truncated.
WriteFile(p) ==
  /\ run[p].pc = "write"
  /\ \E outcome \in {"ok", "open", "io"}:
       /\ run' = [run EXCEPT ![p] =
                    IF outcome = "ok" THEN [@ EXCEPT !.pc = "print", !.wrote = TRUE]
                    ELSE Exit1(@)]
       /\ files' = IF outcome = "ok"
                   THEN [files EXCEPT ![FileOf(run[p].script)] = run[p].walletData]
                   ELSE IF outcome = "io"
                   THEN [files EXCEPT ![FileOf(run[p].script)] = Truncated]
                   ELSE files
  /\ UNCHANGED <<cliBin, obj, cli, call>>

\* console.log(JSON.stringify(wallet)); the script ends with status 0.
PrintWallet(p) ==
  /\ run[p].pc = "print"
  /\ run' = [run EXCEPT ![p] = [@ EXCEPT !.pc = "exit", !.exitCode = 0,
                                         !.stdout = run[p].walletData]]
  /\ UNCHANGED <<files, cliBin, obj, cli, call>>

Next ==
  \E p \in Procs:
    \/ Start(p)
    \/ Kem(p)
    \/ Keys(p)
    \/ HdProvisional(p)
    \/ HdNodeKeygen(p)
    \/ HdAddress(p)
    \/ HdExport(p)
    \/ WriteFile(p)
    \/ PrintWallet(p)

Spec == Init /\ [][Next]_vars

\* --------------------------------- a QTCPQHDWallet object under its caller
\* One object of the class, its methods called in any order by a caller
\* that catches what they throw; the provider binary is built.
InitApi ==
  /\ run = [p \in Procs |-> IdleRun]
  /\ files = [f \in FileNames |-> NoWallet]
  /\ cliBin = TRUE
  /\ obj \in {[NoObj EXCEPT !.pc = "idle", !.provider = pr] : pr \in Providers}
  /\ cli = NoCli
  /\ call = NoCall

apiAfterKem(o, g) ==
  [o EXCEPT !.this = g.this, !.calls = @ + 1, !.guardThrew = FALSE,
            !.pc = IF g.thrown THEN "idle" ELSE "provisional"]

\* wallet.generateMaster() is called: step 1.
ApiGenerateMaster ==
  /\ obj.pc = "idle"
  /\ obj.calls < MaxCalls
  /\ \E seedRnd \in 1..ApiDraws:
       \E fault \in Faults(obj.provider, "kem"):
         \E encRnd \in (IF obj.provider = "noble" /\ fault = "none"
                        THEN 1..ApiDraws ELSE {1}):
           obj' = apiAfterKem(obj, gmKem(obj.this,
                                         kemSelf(obj.provider,
                                                 randomBytes(SeedLen, seedRnd),
                                                 encRnd, fault)))
  /\ UNCHANGED <<run, files, cliBin, cli, call>>

apiAfterProvisional(o, g) ==
  [o EXCEPT !.this = g.this,
            !.pc = IF g.thrown THEN "idle" ELSE "nodekeygen"]

\* generateMaster, steps 2-4 up to the creation of the master node.
ApiProvisional ==
  /\ obj.pc = "provisional"
  /\ \E fault \in Faults(obj.provider, "sig"):
       obj' = apiAfterProvisional(obj, gmProvisional(obj.this, obj.provider, fault))
  /\ UNCHANGED <<run, files, cliBin, cli, call>>

\* masterOk: a generateMaster call has returned normally.
apiAfterNodeKeygen(o, g) ==
  [o EXCEPT !.this = g.this, !.pc = "idle", !.masterOk = @ \/ ~g.thrown]

\* generateMaster: the master node's keygen and the return.
ApiNodeKeygen ==
  /\ obj.pc = "nodekeygen"
  /\ \E fault \in Faults(obj.provider, "sig"):
       obj' = apiAfterNodeKeygen(obj, gmNodeKeygen(obj.this, obj.provider, fault))
  /\ UNCHANGED <<run, files, cliBin, cli, call>>

\* wallet.generateAddresses(count) is called, account and change left to
\* their defaults: the guard.
ApiGenerateAddresses ==
  /\ obj.pc = "idle"
  /\ obj.calls < MaxCalls
  /\ \E count \in 0..MaxCount:
       obj' = IF gaGuard(obj.this)
              THEN [obj EXCEPT !.calls = @ + 1, !.guardThrew = TRUE]
              ELSE [obj EXCEPT !.calls = @ + 1, !.guardThrew = FALSE,
                               !.pc = "derive", !.i = 0, !.count = count,
                               !.addresses = << >>, !.iters = << >>]
  /\ UNCHANGED <<run, files, cliBin, cli, call>>

apiAfterIteration(o, it) ==
  IF it.thrown
  THEN [o EXCEPT !.this = it.this, !.pc = "idle", !.i = 0, !.count = 0,
                 !.addresses = << >>, !.iters = << >>]
  ELSE [o EXCEPT !.this = it.this, !.i = @ + 1,
                 !.addresses = Append(@, it.entry),
                 !.iters = Append(@, it.iteration)]

\* generateAddresses: one iteration of the loop.
ApiIteration ==
  /\ obj.pc = "derive"
  /\ obj.i < obj.count
  /\ \E fault \in Faults(obj.provider, "sig"):
       obj' = apiAfterIteration(obj, gaIteration(obj.this, obj.i, 0, 0,
                                                 obj.provider, fault))
  /\ UNCHANGED <<run, files, cliBin, cli, call>>

\* generateAddresses returns its array; the history keeps what each call
\* returned, the master entropy it was called under and whether a
\* generateMaster had returned by then.
ApiReturn ==
  /\ obj.pc = "derive"
  /\ obj.i >= obj.count
  /\ obj' = [obj EXCEPT !.pc = "idle", !.i = 0, !.count = 0,
                        !.addresses = << >>, !.iters = << >>,
                        !.history = Append(@, [masterEntropy |-> obj.this.masterEntropy,
                                               masterOk |-> obj.masterOk,
                                               addresses |-> obj.addresses,
                                               iters |-> obj.iters])]
  /\ UNCHANGED <<run, files, cliBin, cli, call>>

NextApi ==
  \/ ApiGenerateMaster
  \/ ApiProvisional
  \/ ApiNodeKeygen
  \/ ApiGenerateAddresses
  \/ ApiIteration
  \/ ApiReturn

SpecApi == InitApi /\ [][NextApi]_vars

\* ------------------------------------- oqs_wallet_cli under a command line
\* The seed_hex arguments tried: the hex text of a 64-byte seed, the empty
\* text, upper-case digits, a text of odd length, and texts with a character
\* that is no hex digit.
SeedHexes ==
  {toHex(randomBytes(SeedLen, v)) : v \in 1..RngValues}
  \cup {<< >>, <<65, 66>>, <<97, 98, 99>>, <<122, 122>>, <<48, 103>>}

\* The command lines tried: every argument count from none to three.
CliArgvs ==
  {CliArgv(0, "", << >>)}
  \cup {CliArgv(1, c, << >>) : c \in CliCommands}
  \cup {CliArgv(3, c, h) : c \in CliCommands, h \in SeedHexes}
  \cup {CliArgv(2, c, h) : c \in CliCommands \cup {"gen_kyber"}, h \in SeedHexes}

InitCli ==
  /\ run = [p \in Procs |-> IdleRun]
  /\ files = [f \in FileNames |-> NoWallet]
  /\ cliBin = TRUE
  /\ obj = NoObj
  /\ cli = [NoCli EXCEPT !.pc = "idle"]
  /\ call = NoCall

\* The process is started with a command line; fault is what it will meet.
CliStart ==
  /\ cli.pc = "idle"
  /\ \E argv \in CliArgvs:
       \E fault \in CliFaults \ {"spawn"}:
         cli' = [NoCli EXCEPT !.pc = "main", !.argv = argv, !.fault = fault]
  /\ UNCHANGED <<run, files, cliBin, obj, call>>

\* What main leaves: the status, the text on stdout and on stderr.
cliAfterMain(c, res) ==
  [c EXCEPT !.pc = "exited", !.status = res.status, !.stdout = res.stdout,
            !.stderr = res.stderr]

\* main runs to its return.
CliMain ==
  /\ cli.pc = "main"
  /\ cli' = cliAfterMain(cli, cliMain(cli.argv, cli.fault))
  /\ UNCHANGED <<run, files, cliBin, obj, call>>

\* The caller has read the result; the next process can be started.
CliReap ==
  /\ cli.pc = "exited"
  /\ cli' = [NoCli EXCEPT !.pc = "idle"]
  /\ UNCHANGED <<run, files, cliBin, obj, call>>

NextCli ==
  \/ CliStart
  \/ CliMain
  \/ CliReap

SpecCli == InitCli /\ [][NextCli]_vars

\* ------------------------------------------- two runs at the same time
\* Two processes started in one directory at any time, each with a script of
\* its own.  What a run computes between its start and its write touches
\* nothing outside the process, so it is taken as one step; the steps that
\* touch the directory (the check for the provider binary, its build, the
\* write of the wallet file) and the print are steps of their own.
ConcArgv(script) == IF script \in HdScripts THEN <<1>> ELSE << >>

\* The loop of generateAddresses and exportWallet, no provider call failing.
RECURSIVE hdLoop(_)
hdLoop(r) ==
  IF r.pc # "derive" THEN r
  ELSE IF r.i >= r.count
  THEN [r EXCEPT !.pc = "write", !.walletData = exportWallet(r.this, r.addresses)]
  ELSE hdLoop(afterIteration(r, gaIteration(r.this, r.i, r.account, r.change,
                                            ProviderOf(r.script), "none"), "none"))

hdAfterProvisional(r) ==
  IF r.pc # "nodekeygen" THEN r
  ELSE hdLoop(afterNodeKeygen(r, gmNodeKeygen(r.this, ProviderOf(r.script), "none"),
                              "none"))

\* A run from its KEM step to the assembled wallet.
generatedAfterKem(r) ==
  IF r.pc = "keys" THEN afterKeys(r, generateSingle(r.script, r.kem, "none"), "none")
  ELSE IF r.pc = "provisional"
  THEN hdAfterProvisional(afterProvisional(r, gmProvisional(r.this, ProviderOf(r.script),
                                                            "none"), "none"))
  ELSE r

InitConc ==
  /\ run = [p \in Procs |-> IdleRun]
  /\ files = [f \in FileNames |-> NoWallet]
  /\ cliBin \in BOOLEAN
  /\ obj = NoObj
  /\ cli = NoCli
  /\ call = NoCall

\* node <script> <argv>
ConcStart(p) ==
  /\ run[p].pc = "idle"
  /\ \E script \in Scripts:
       run' = [run EXCEPT ![p] = [IdleRun EXCEPT !.pc = "exists", !.script = script,
                                                 !.argv = ConcArgv(script)]]
  /\ UNCHANGED <<files, cliBin, obj, cli, call>>

\* ensureCliBuilt: fs.existsSync(cliBin)
ConcExists(p) ==
  /\ run[p].pc = "exists"
  /\ run' = [run EXCEPT ![p].pc = IF ProviderOf(run[p].script) = "cli" /\ ~cliBin
                                  THEN "build" ELSE "kem"]
  /\ UNCHANGED <<files, cliBin, obj, cli, call>>

\* ensureCliBuilt: spawnSync(make) and its status check
ConcBuild(p) ==
  /\ run[p].pc = "build"
  /\ \E buildOk \in BOOLEAN:
       IF buildOk
       THEN /\ run' = [run EXCEPT ![p].pc = "kem"]
            /\ cliBin' = TRUE
       ELSE /\ run' = [run EXCEPT ![p] = Exit1(@)]
            /\ UNCHANGED cliBin
  /\ UNCHANGED <<files, obj, cli, call>>

\* The run from crypto.randomBytes(64) to its wallet object.
ConcGenerate(p) ==
  /\ run[p].pc = "kem"
  /\ \E seedRnd \in 1..RngValues:
       \E fault \in Faults(ProviderOf(run[p].script), "kem"):
         \E encRnd \in EncDraws(run[p].script, fault):
           run' = [run EXCEPT ![p] =
                     generatedAfterKem(drawAndKem(@, randomBytes(SeedLen, seedRnd),
                                                  encRnd, fault))]
  /\ UNCHANGED <<files, cliBin, obj, cli, call>>

NextConc ==
  \E p \in Procs:
    \/ ConcStart(p)
    \/ ConcExists(p)
    \/ ConcBuild(p)
    \/ ConcGenerate(p)
    \/ WriteFile(p)
    \/ PrintWallet(p)

SpecConc == InitConc /\ [][NextConc]_vars

\* ------------------------------------------- the address codec under its caller
\* The 20-byte programs tried: all zero, all 255, and cuts of random bytes.
Programs ==
  {Seqd([i \in 1..ProgramLen |-> 0]), Seqd([i \in 1..ProgramLen |-> 255])}
  \cup {randomBytes(ProgramLen, k) : k \in 1..RngValues}

InitAddr ==
  /\ run = [p \in Procs |-> IdleRun]
  /\ files = [f \in FileNames |-> NoWallet]
  /\ cliBin = FALSE
  /\ obj = NoObj
  /\ cli = NoCli
  /\ call = [pc |-> "idle"]

\* bech32.encode("qtc", [witnessVersion, ...bech32.toWords(program)])
AddrEncode ==
  /\ call.pc = "idle"
  /\ \E v \in 0..31, program \in Programs:
       call' = [pc |-> "encoded", witnessVersion |-> v, program |-> program,
                text |-> addressText(encodeAddress(v, program))]
  /\ UNCHANGED <<run, files, cliBin, obj, cli>>

\* decode(text), and the decode of the library export the scripts import.
AddrDecode ==
  /\ call.pc = "encoded"
  /\ call' = [pc |-> "decoded", witnessVersion |-> call.witnessVersion,
              program |-> call.program, text |-> call.text,
              out |-> decode(call.text),
              outBech32 |-> decodeWith(BECH32_CONST, call.text)]
  /\ UNCHANGED <<run, files, cliBin, obj, cli>>

AddrReturn ==
  /\ call.pc = "decoded"
  /\ call' = [pc |-> "idle"]
  /\ UNCHANGED <<run, files, cliBin, obj, cli>>

NextAddr ==
  \/ AddrEncode
  \/ AddrDecode
  \/ AddrReturn

SpecAddr == InitAddr /\ [][NextAddr]_vars

\* ------------------------------------------- QTCHDPath under its caller
\* The components a caller builds paths from: -1, the small values, a
\* two-digit value and the default purpose.
PathValues == (-1..MaxPathValue) \cup {10, DefaultPurpose}

Paths == {QTCHDPath(a, b, c, d): a \in {0, DefaultPurpose}, b \in PathValues \ {10},
                                 c \in PathValues, d \in PathValues}

\* The characters a caller's slip puts into a path text:
\* m / ' - x space 0 and the line feed.
EditChars == {109, 47, 39, 45, 120, 32, 48, 10}

\* A text with its apostrophes left out.
RECURSIVE unhardened(_)
unhardened(s) ==
  IF Len(s) = 0 THEN << >>
  ELSE IF s[1] = 39 THEN unhardened(Tail(s)) ELSE <<s[1]>> \o unhardened(Tail(s))

\* The texts one slip away from a text: a character dropped, replaced or
\* inserted, or every apostrophe left out.
Edits(s) ==
  {SubSeq(s, 1, i - 1) \o SubSeq(s, i + 1, Len(s)): i \in 1..Len(s)}
    \cup {[s EXCEPT ![i] = c]: i \in 1..Len(s), c \in EditChars}
    \cup {SubSeq(s, 1, i) \o <<c>> \o SubSeq(s, i + 1, Len(s)): i \in 0..Len(s), c \in EditChars}
    \cup {unhardened(s)}

IdlePathCall ==
  [pc |-> "idle", path |-> NoPath, text |-> << >>, edited |-> FALSE,
   thrown |-> FALSE, parsed |-> NoPath]

InitPath ==
  /\ run = [p \in Procs |-> IdleRun]
  /\ files = [f \in FileNames |-> NoWallet]
  /\ cliBin = FALSE
  /\ obj = NoObj
  /\ cli = NoCli
  /\ call = IdlePathCall

\* path.toString() of a path the caller built.
PathToStringCall ==
  /\ call.pc = "idle"
  /\ \E path \in Paths:
       call' = [IdlePathCall EXCEPT !.pc = "text", !.path = path,
                                    !.text = PathToString(path)]
  /\ UNCHANGED <<run, files, cliBin, obj, cli>>

\* The text changes by one slip on its way to fromString.
PathEdit ==
  /\ call.pc = "text"
  /\ ~call.edited
  /\ \E text \in Edits(call.text) \ {call.text}:
       call' = [call EXCEPT !.text = text, !.edited = TRUE]
  /\ UNCHANGED <<run, files, cliBin, obj, cli>>

\* QTCHDPath.fromString(text)
PathFromStringCall ==
  /\ call.pc = "text"
  /\ call' = [call EXCEPT !.pc = "parsed",
                          !.thrown = fromString(call.text).thrown,
                          !.parsed = fromString(call.text).path]
  /\ UNCHANGED <<run, files, cliBin, obj, cli>>

PathReturn ==
  /\ call.pc = "parsed"
  /\ call' = IdlePathCall
  /\ UNCHANGED <<run, files, cliBin, obj, cli>>

NextPath ==
  \/ PathToStringCall
  \/ PathEdit
  \/ PathFromStringCall
  \/ PathReturn

SpecPath == InitPath /\ [][NextPath]_vars

\* ------------------------------------------- QTCHDNode under its caller
\* The indices a caller passes to deriveChild: -1 and the small ones, 258,
\* and the values around -2^31, 2^31 and 2^32.
DeriveIndices ==
  {wideOf(i) : i \in (-1..MaxCount) \cup {258}}
  \cup {Wide(TRUE, 32768, 0), Wide(FALSE, 32767, 65535), Wide(FALSE, 32768, 0),
        Wide(FALSE, 65535, 65535), Wide(FALSE, 65536, 0), Wide(FALSE, 65536, 1),
        Wide(FALSE, 65536, 258), Wide(TRUE, 65536, 0), Wide(FALSE, 131072, 2)}

InitDerive ==
  /\ run = [p \in Procs |-> IdleRun]
  /\ files = [f \in FileNames |-> NoWallet]
  /\ cliBin = FALSE
  /\ obj = NoObj
  /\ cli = NoCli
  /\ call = [pc |-> "idle"]

\* new QTCHDNode(masterEntropy, path)
DeriveNew ==
  /\ call.pc = "idle"
  /\ \E v \in 1..RngValues, a \in 0..MaxCount, c \in 0..MaxCount, i \in {0, 7}:
       call' = [pc |-> "node",
                node |-> QTCHDNode(randomBytes(MasterLen, v),
                                   QTCHDPath(DefaultPurpose, a, c, i))]
  /\ UNCHANGED <<run, files, cliBin, obj, cli>>

\* node.generateKeyPair()
DeriveKeys ==
  /\ call.pc = "node"
  /\ call.node.publicKey = Null
  /\ call' = [call EXCEPT !.node = generateKeyPair(call.node, "cli", "none").this]
  /\ UNCHANGED <<run, files, cliBin, obj, cli>>

\* node.deriveChild(index)
DeriveChild ==
  /\ call.pc = "node"
  /\ \E w \in DeriveIndices:
       call' = [pc |-> "derived", node |-> call.node, index |-> w,
                out |-> deriveChildOf(call.node, w)]
  /\ UNCHANGED <<run, files, cliBin, obj, cli>>

DeriveReturn ==
  /\ call.pc = "derived"
  /\ call' = [pc |-> "idle"]
  /\ UNCHANGED <<run, files, cliBin, obj, cli>>

NextDerive ==
  \/ DeriveNew
  \/ DeriveKeys
  \/ DeriveChild
  \/ DeriveReturn

SpecDerive == InitDerive /\ [][NextDerive]_vars

\* ------------------------------------------------------------ properties
\* The three methods of the README's table.
Primary == {"qti2.js", "qtc2.js"}
SinglePqhd == {"qti3.js", "qti3_noble.js"}

\* The witness version the documentation gives each method.
WitnessVersionOf(script) == IF script \in Primary THEN 1 ELSE 2

\* The run has assembled its wallet record.
Produced(p) == ~run[p].walletData.none

\* The run ended with status 0.
Succeeded(p) == run[p].pc = "exit" /\ run[p].exitCode = 0

\* The addresses of the wallet record of a run.
AddressesOf(p) ==
  IF run[p].script \in HdScripts
  THEN {run[p].addresses[k].address : k \in 1..Len(run[p].addresses)}
  ELSE {run[p].loc.address}

\* The provider calls a complete run makes.
ExpectedCalls(p) == IF run[p].script \in HdScripts THEN 3 + run[p].count ELSE 2

\* C1: Determinism.  Two runs of the same script with the same command line
\* that drew the same seed and ended with status 0 have the same KEM keypair,
\* shared secret, entropy, signature keypairs and addresses, and print the
\* same wallet.
C1_Determinism ==
  \A p \in Procs, q \in Procs:
    (/\ Succeeded(p) /\ Succeeded(q)
     /\ run[p].script = run[q].script
     /\ run[p].argv = run[q].argv
     /\ run[p].seed = run[q].seed)
    => /\ run[p].kem = run[q].kem
       /\ run[p].loc = run[q].loc
       /\ run[p].this = run[q].this
       /\ run[p].addresses = run[q].addresses
       /\ run[p].stdout = run[q].stdout

\* C2: in every run the OS random source is read at most once, and a run
\* that assembled its wallet has read it exactly once, for the seed.
C2_RngConsumedOnce ==
  \A p \in Procs:
    /\ run[p].rngDraws <= 1
    /\ Produced(p) => run[p].rngDraws = 1

\* C3: Tree purity.  Under the same master, every generateAddresses call
\* returns the same entry for an index whatever the count asked for and
\* whatever was derived before, and the entropy of entry i is the one a
\* direct deriveChild(i) on a fresh master node gives.
C3_TreePurity ==
  \A a \in 1..Len(obj.history):
    /\ \A k \in 1..Len(obj.history[a].iters):
         obj.history[a].iters[k].childNode.masterEntropy
           = deriveChild(QTCHDNode(obj.history[a].masterEntropy, DefaultPath),
                         k - 1).result.masterEntropy
    /\ \A b \in 1..Len(obj.history):
         obj.history[a].masterEntropy = obj.history[b].masterEntropy
         => \A k \in 1..Len(obj.history[a].addresses):
              k <= Len(obj.history[b].addresses)
              => /\ obj.history[a].addresses[k] = obj.history[b].addresses[k]
                 /\ obj.history[a].iters[k] = obj.history[b].iters[k]

\* Two calls under one master returned arrays of different lengths, the
\* longer one with at least two entries.
C3_Witness ==
  \E a \in 1..Len(obj.history), b \in 1..Len(obj.history):
    /\ obj.history[a].masterEntropy = obj.history[b].masterEntropy
    /\ Len(obj.history[a].addresses) >= 1
    /\ Len(obj.history[b].addresses) > Len(obj.history[a].addresses)

\* C4: the HD script run with (count, account, change) exports the paths
\* m/44'/account'/change/i and derives each child entropy under that path.
C4_RequestedPath ==
  \A p \in Procs:
    (run[p].script \in HdScripts /\ Produced(p))
    => \A k \in 1..Len(run[p].addresses):
         /\ run[p].addresses[k].path
              = PathToString(QTCHDPath(DefaultPurpose, run[p].account,
                                       run[p].change, k - 1))
         /\ run[p].iters[k].childNode.masterEntropy
              = SHA3_512(Concat(<<run[p].this.masterEntropy,
                                  PathToString(QTCHDPath(DefaultPurpose,
                                                         run[p].account,
                                                         run[p].change, k - 1)),
                                  writeUInt32BE(k - 1)>>))

\* C5: generateAddresses passes its guard, derives and returns only on an
\* object on which an earlier generateMaster call has returned normally.
C5_DeriveOnlyAfterMaster ==
  /\ obj.pc = "derive" => obj.masterOk
  /\ \A a \in 1..Len(obj.history): obj.history[a].masterOk

\* C6: No partial wallet.  A run in which a provider call failed has ended
\* with a non-zero status, has written no file and printed no wallet; a run
\* that wrote its file had made all its provider calls, none of them failing.
C6_NoPartialWallet ==
  \A p \in Procs:
    /\ run[p].providerFailed
       => /\ run[p].pc = "exit"
          /\ run[p].exitCode # 0
          /\ ~run[p].wrote
          /\ run[p].stdout = NoWallet
    /\ run[p].wrote
       => /\ ~run[p].providerFailed
          /\ run[p].providerCalls = ExpectedCalls(p)

\* An HD run whose provider failed at the keygen of an address index k > 0.
C6_Witness ==
  \E p \in Procs:
    /\ run[p].script \in HdScripts
    /\ run[p].providerFailed
    /\ run[p].failedAt >= 4
    /\ run[p].pc = "exit"

\* C7: every address of a wallet record has the human-readable part "qtc"
\* and the witness version of its method as first data value.
C7_WitnessVersionFirst ==
  \A p \in Procs:
    Produced(p)
    => \A a \in AddressesOf(p):
         /\ ~a.thrown
         /\ a.hrp = HRP_qtc
         /\ a.data[1] = WitnessVersionOf(run[p].script)

\* C8: every address of a wallet record carries the checksum computed with
\* the bech32m constant.
C8_Bech32mChecksum ==
  \A p \in Procs:
    Produced(p)
    => \A a \in AddressesOf(p):
         a.checksum = createChecksum(a.hrp, a.data, BECH32M_CONST)

\* C9 as stated: the address program is the first 20 bytes of SHA3-256 of
\* the signature public key in the Primary method and of the master entropy
\* in the Single PQ-HD and the HD multi-address methods.
C9_AsStated ==
  \A p \in Procs:
    Produced(p)
    => IF run[p].script \in Primary
       THEN run[p].loc.addressBytes
              = Take(SHA3_256(run[p].loc.dilithium_pk), ProgramLen)
       ELSE IF run[p].script \in SinglePqhd
       THEN run[p].loc.addressBytes
              = Take(SHA3_256(run[p].loc.entropy), ProgramLen)
       ELSE \A k \in 1..Len(run[p].iters):
              run[p].iters[k].addressBytes
                = Take(SHA3_256(run[p].this.masterEntropy), ProgramLen)

\* C9: the address program is the first 20 bytes of SHA3-256 of the
\* signature public key in the Primary method, of the master entropy in the
\* Single PQ-HD method, and of the address's own (child) signature public
\* key for every address of the HD multi-address method.
C9_ProgramInput ==
  \A p \in Procs:
    Produced(p)
    => IF run[p].script \in Primary
       THEN run[p].loc.addressBytes
              = Take(SHA3_256(run[p].loc.dilithium_pk), ProgramLen)
       ELSE IF run[p].script \in SinglePqhd
       THEN run[p].loc.addressBytes
              = Take(SHA3_256(run[p].loc.entropy), ProgramLen)
       ELSE \A k \in 1..Len(run[p].iters):
              /\ run[p].iters[k].addressBytes
                   = Take(SHA3_256(run[p].iters[k].childNode.publicKey), ProgramLen)
              /\ run[p].addresses[k].address.data
                   = <<2>> \o toWords(run[p].iters[k].addressBytes)

\* An HD run that assembled a wallet of at least two addresses.
C9_Witness ==
  \E p \in Procs:
    /\ run[p].script \in HdScripts
    /\ Produced(p)
    /\ Len(run[p].iters) >= 2

\* C10 as stated: the seed given to the signature keygen of every exported
\* keypair is the first 32 bytes of its entropy: the master entropy in the
\* Primary and Single PQ-HD methods, the child entropy in the HD method.
C10_AsStated ==
  \A p \in Procs:
    Produced(p)
    => IF run[p].script \in HdScripts
       THEN \A k \in 1..Len(run[p].iters):
              run[p].iters[k].seedGiven
                = Take(run[p].iters[k].childNode.masterEntropy, DilithiumSeedLen)
       ELSE run[p].loc.seedGiven = Take(run[p].loc.entropy, DilithiumSeedLen)

\* C10: the seed given to the signature keygen of every exported keypair is
\* the first 32 bytes of the master entropy in the Primary method and of the
\* child entropy for each address of the HD method; in the Single PQ-HD
\* method it is SHAKE256(shared secret || "QTC_PQHD_DILITHIUM") cut to 32
\* bytes, the master entropy being computed after that keypair.
C10_SignatureSeed ==
  \A p \in Procs:
    Produced(p)
    => IF run[p].script \in HdScripts
       THEN \A k \in 1..Len(run[p].iters):
              run[p].iters[k].seedGiven
                = Take(run[p].iters[k].childNode.masterEntropy, DilithiumSeedLen)
       ELSE IF run[p].script \in Primary
       THEN run[p].loc.seedGiven = Take(run[p].loc.entropy, DilithiumSeedLen)
       ELSE run[p].loc.seedGiven
              = SHAKE256(run[p].kem.sharedSecret \o TAG_QTC_PQHD_DILITHIUM,
                         DilithiumSeedLen)

\* A Single PQ-HD run that assembled its wallet.
C10_Witness ==
  \E p \in Procs: run[p].script \in SinglePqhd /\ Produced(p)

\* The master entropy a Single PQ-HD run computed is the 64-byte SHAKE256
\* output over the shared secret, then tag, then the signature public key.
entropyAbsorbs(kem, loc, tag) ==
  /\ Len(loc.entropy) = MasterLen
  /\ loc.entropy = SHAKE256(Concat(<<kem.sharedSecret, tag, loc.dilithium_pk>>),
                            MasterLen)

C12_MasterEntropyHash ==
  \A p \in Procs:
    Produced(p)
    => /\ run[p].script \in Primary
          => b64_decode(run[p].walletData.entropy_b64)
               = SHA3_512(run[p].kem.sharedSecret)
       /\ run[p].script \in HdScripts
          => b64_decode(run[p].walletData.master.master_entropy_b64)
               = SHA3_512(run[p].this.sharedSecret \o run[p].provisionalPk)

\* The text "m/44'/0'/0/" of the paths under the default master node.
textM44h0h0 == <<109, 47, 52, 52, 39, 47, 48, 39, 47, 48, 47>>

\* C13: the child entropy of deriveChild(index) is SHA3-512 over the parent
\* node's entropy, then the text of the child's path, then the index as four
\* big-endian bytes.  It holds for every address a run derived (indices
\* below ten, one decimal digit) and for index 258 (three digits, two
\* non-zero index bytes) derived from every master node reached.
C13_ChildEntropy ==
  \A p \in Procs:
    (run[p].script \in HdScripts /\ run[p].pc \in {"derive", "write"})
    => /\ \A k \in 1..Len(run[p].iters):
            run[p].iters[k].childNode.masterEntropy
              = SHA3_512(Concat(<<run[p].this.masterEntropy,
                                  textM44h0h0, <<48 + (k - 1)>>,
                                  <<0, 0, 0, k - 1>> >>))
       /\ run[p].i = 0
          => deriveChild(run[p].this.masterNode, 258).result.masterEntropy
               = SHA3_512(Concat(<<run[p].this.masterEntropy,
                                   textM44h0h0, <<50, 53, 56>>,
                                   <<0, 0, 1, 2>> >>))

\* An HD run that derived the children of indices 0 and 1.
C13_Witness ==
  \E p \in Procs:
    /\ run[p].script \in HdScripts
    /\ run[p].pc = "derive"
    /\ Len(run[p].iters) = 2
    /\ run[p].iters[1].childNode.masterEntropy
         # run[p].iters[2].childNode.masterEntropy

\* C14: the export of an HD run whose generateAddresses was given count N
\* lists exactly N entries; entry k (0-based) has index k and a path whose
\* text ends in "/k"; the indices ascend strictly, the paths are pairwise
\* distinct, and total_addresses is N.
C14_OrderedExport ==
  \A p \in Procs:
    (run[p].script \in HdScripts /\ Produced(p))
    => /\ Len(run[p].walletData.addresses) = run[p].count
       /\ run[p].walletData.total_addresses = run[p].count
       /\ \A k \in 1..Len(run[p].walletData.addresses):
            /\ run[p].walletData.addresses[k].index = k - 1
            /\ Len(run[p].walletData.addresses[k].path) >= 2
            /\ run[p].walletData.addresses[k].path
                 [Len(run[p].walletData.addresses[k].path)] = 48 + (k - 1)
            /\ run[p].walletData.addresses[k].path
                 [Len(run[p].walletData.addresses[k].path) - 1] = 47
       /\ \A j, k \in 1..Len(run[p].walletData.addresses):
            j < k => /\ run[p].walletData.addresses[j].index
                          < run[p].walletData.addresses[k].index
                     /\ run[p].walletData.addresses[j].path
                          # run[p].walletData.addresses[k].path

\* An HD run that exported the default number of addresses.
C14_Witness ==
  \E p \in Procs:
    /\ run[p].script \in HdScripts
    /\ Produced(p)
    /\ run[p].count = DefaultCount
    /\ Len(run[p].walletData.addresses) = DefaultCount

\* The number of addresses the documentation gives for a run with no
\* arguments.
DocumentedDefaultCount == 10

\* C15: an HD run started with no arguments exports 10 addresses, for
\* account 0 and change 0.
C15_DefaultTenAddresses ==
  \A p \in Procs:
    (run[p].script \in HdScripts /\ run[p].argv = << >> /\ Produced(p))
    => /\ Len(run[p].walletData.addresses) = DocumentedDefaultCount
       /\ run[p].walletData.total_addresses = DocumentedDefaultCount
       /\ run[p].account = 0
       /\ run[p].change = 0

\* The address QTCHDNode.generateAddress gives a node holding public key pk.
hdAddressOf(pk) ==
  generateAddress([QTCHDNode(Null, DefaultPath) EXCEPT !.publicKey = pk]).address

\* The address step 4 of a Primary script gives the signature keypair
\* (pk, sk) next to the KEM result kem.
primaryAddressOf(script, kem, pk, sk) ==
  IF script = "qti2.js"
  THEN qti2Hash(kem, SHA3_512(kem.sharedSecret),
                sigFromNoble([publicKey |-> pk, secretKey |-> sk], Null)).address
  ELSE qtc2Hash(kem, SHAKE256(kem.sharedSecret, MasterLen),
                sigFromNoble([publicKey |-> pk, secretKey |-> sk], Null)).address

\* C16: witness separation.  For the same KEM shared secret and the same
\* signature public key, the address of the Primary method and the address
\* of the HD method differ: the HD address of the public key of every
\* Primary wallet differs from that wallet's address, and the Primary
\* address (of either Primary script) of the public key of every HD entry
\* differs from that entry's address.
C16_WitnessSeparation ==
  \A p \in Procs:
    Produced(p)
    => /\ run[p].script \in Primary
          => /\ primaryAddressOf(run[p].script, run[p].kem,
                                 run[p].loc.dilithium_pk, run[p].loc.dilithium_sk)
                  = run[p].loc.address
             /\ hdAddressOf(run[p].loc.dilithium_pk) # run[p].loc.address
       /\ run[p].script \in HdScripts
          => \A k \in 1..Len(run[p].iters):
               /\ hdAddressOf(run[p].iters[k].childNode.publicKey)
                    = run[p].addresses[k].address
               /\ \A s \in Primary:
                    primaryAddressOf(s, run[p].kem,
                                     run[p].iters[k].childNode.publicKey,
                                     run[p].iters[k].childNode.privateKey)
                      # run[p].addresses[k].address

\* A Primary run of the script that writes witness version 1 assembled its
\* wallet, and the HD encoding of the same public key carries the same
\* program words behind another first value.
C16_Witness ==
  \E p \in Procs:
    /\ run[p].script = "qtc2.js"
    /\ Produced(p)
    /\ Tail(hdAddressOf(run[p].loc.dilithium_pk).data)
         = Tail(run[p].loc.address.data)

\* The provisional keypair of generateMaster of an HD run, recomputed from
\* the shared secret the wallet object holds.
provisionalOf(p) ==
  sigKeygen(ProviderOf(run[p].script), provisionalSeed(run[p].this.sharedSecret),
            "none")

\* The keypair of the child of index i of the master node of an HD run.
childKeysOf(p, i) ==
  sigKeygen(ProviderOf(run[p].script),
            Take(deriveChild(run[p].this.masterNode, i).result.masterEntropy,
                 DilithiumSeedLen),
            "none")

\* The exported record wallet carries neither key of the keypair prov, nor
\* the address of its public key.
carriesNothingOf(wallet, provPk_b64, provSk_b64, provAddress) ==
  /\ DOMAIN wallet
       = {"none", "wallet_type", "witness_version", "master", "addresses",
          "total_addresses"}
  /\ DOMAIN wallet.master
       = {"kyber_public_b64", "kyber_private_b64",
          "kyber_shared_secret_b64", "master_entropy_b64"}
  /\ \A f \in DOMAIN wallet.master:
       wallet.master[f] \notin {provPk_b64, provSk_b64}
  /\ \A k \in 1..Len(wallet.addresses):
       /\ DOMAIN wallet.addresses[k]
            = {"index", "path", "address", "dilithium_public_b64",
               "dilithium_private_b64"}
       /\ wallet.addresses[k].dilithium_public_b64 # provPk_b64
       /\ wallet.addresses[k].dilithium_private_b64 # provSk_b64
       /\ wallet.addresses[k].address # provAddress

\* C17: in the HD method the provisional keypair gives only its public key
\* to the master entropy.  The record exportWallet assembles has the fields
\* of exportWallet and no other; none of them carries the provisional public
\* or private key; no entry carries them or the address of the provisional
\* public key; the keys of entry k are those generated from the child
\* entropy of index k.  The record written and printed is that record.
C17_ProvisionalDiscarded ==
  \A p \in Procs:
    (run[p].script \in HdScripts /\ Produced(p))
    => /\ run[p].stdout.none \/ run[p].stdout = run[p].walletData
       /\ run[p].pc = "write"
          => /\ provisionalOf(p).publicKey = run[p].provisionalPk
             /\ run[p].this.masterEntropy
                  = SHA3_512(run[p].this.sharedSecret \o run[p].provisionalPk)
             /\ carriesNothingOf(run[p].walletData,
                                 b64_encode(run[p].provisionalPk),
                                 b64_encode(provisionalOf(p).secretKey),
                                 hdAddressOf(run[p].provisionalPk))
             /\ \A k \in 1..Len(run[p].walletData.addresses):
                  /\ run[p].walletData.addresses[k].dilithium_public_b64
                       = b64_encode(childKeysOf(p, k - 1).publicKey)
                  /\ run[p].walletData.addresses[k].dilithium_private_b64
                       = b64_encode(childKeysOf(p, k - 1).secretKey)

\* An HD run that exported two addresses after its provisional keygen.
C17_Witness ==
  \E p \in Procs:
    /\ run[p].script \in HdScripts
    /\ Produced(p)
    /\ run[p].provisionalPk # Null
    /\ Len(run[p].walletData.addresses) = 2

\* The character codes of the hex digits 0-9, a-f, A-F.
HexChars == (48..57) \cup (97..102) \cup (65..70)

\* The seed_hex text is one hex2bin rejects.
badHex(hex) == Len(hex) % 2 = 1 \/ \E i \in 1..Len(hex): hex[i] \notin HexChars

\* The fields of the JSON object a command prints.
fieldsOf(cmd) ==
  IF cmd = "gen_kyber_from_seed" THEN {"kyber_public_b64", "kyber_private_b64"}
  ELSE IF cmd = "gen_dilithium_from_seed"
       THEN {"dilithium_public_b64", "dilithium_private_b64"}
  ELSE {"kyber_public_b64", "kyber_private_b64", "shared_b64"}

\* The status main must return for a command line and a fault: 1 for a
\* wrong argument count or an unknown command, 99 for a seed text that is
\* not hex or of odd length and for a failed RNG initialisation, 2, 3, 4 for
\* an unavailable algorithm, a failed keypair, a failed encapsulation.
statusFor(argv, fault) ==
  IF argv.args # 2 \/ argv.cmd \notin CliCommands THEN 1
  ELSE IF badHex(argv.seed_hex) \/ fault = "rng" THEN 99
  ELSE IF fault = "alg" THEN 2
  ELSE IF fault = "keypair" THEN 3
  ELSE IF fault = "encaps" /\ argv.cmd = "kem_self_from_seed" THEN 4
  ELSE 0

\* C18: oqs_wallet_cli signals failure explicitly.  On a wrong argument
\* count, an unknown command, a seed text of odd length or with a character
\* that is no hex digit, an unavailable algorithm, a failed keypair, a failed
\* encapsulation and a failed RNG initialisation it returns a non-zero
\* status with a message on stderr and nothing on stdout; it prints one JSON
\* object, with the fields of the command, exactly when it returns 0.
C18_ExplicitFailure ==
  cli.pc = "exited"
  => /\ cli.status = statusFor(cli.argv, cli.fault)
     /\ cli.status = 0 <=> ~cli.stdout.none
     /\ cli.status # 0 => cli.stderr # "" /\ cli.stdout = [none |-> TRUE]
     /\ cli.status = 0 => DOMAIN cli.stdout = {"none"} \cup fieldsOf(cli.argv.cmd)

\* The process returned 99, with a message, for a seed text of odd length.
C18_Witness ==
  /\ cli.pc = "exited"
  /\ cli.argv.args = 2
  /\ cli.argv.cmd \in CliCommands
  /\ Len(cli.argv.seed_hex) % 2 = 1
  /\ cli.status = 99
  /\ cli.stderr # ""

\* C19: entropy expansion fails, with no output, when the secret it is given
\* is empty: a provider command given the empty seed text, whose seed
\* expander receives a seed of zero bytes, returns a non-zero status and
\* prints nothing on stdout.
C19_EmptySecretRejected ==
  (/\ cli.pc = "exited"
   /\ cli.argv.args = 2
   /\ cli.argv.cmd \in CliCommands
   /\ hex2bin(cli.argv.seed_hex) = [ok |-> TRUE, out |-> << >>])
  => cli.status # 0 /\ cli.stdout.none

\* The hash input of the provider's seed expansion for a command's domain.
expansionInput(domain, seed) == Concat(<<TAG_oqs_wallet_cli, domain, seed>>)

\* The domain literals of the three provider commands.
CommandDomains == {DOM_kyber_keygen, DOM_dilithium_keygen, DOM_kyber_kem_self}

digitRun(s) == s # << >> /\ \A i \in DOMAIN s: s[i] >= 48 /\ s[i] <= 57

\* A text of the form m/<digits>'/<digits>'/<digits>/<digits>: the text
\* splits at three places into the four runs of digits and their separators.
formOfPathText(s) ==
  /\ Len(s) >= 11
  /\ s[1] = 109 /\ s[2] = 47
  /\ \E i \in 3..Len(s):
       /\ digitRun(SubSeq(s, 3, i))
       /\ i + 2 <= Len(s) /\ s[i + 1] = 39 /\ s[i + 2] = 47
       /\ \E j \in (i + 3)..Len(s):
            /\ digitRun(SubSeq(s, i + 3, j))
            /\ j + 2 <= Len(s) /\ s[j + 1] = 39 /\ s[j + 2] = 47
            /\ \E k \in (j + 3)..Len(s):
                 /\ digitRun(SubSeq(s, j + 3, k))
                 /\ k + 1 <= Len(s) /\ s[k + 1] = 47
                 /\ digitRun(SubSeq(s, k + 2, Len(s)))

\* m/44/0/0/0
textUnhardened == <<109, 47, 52, 52, 47, 48, 47, 48, 47, 48>>

\* m/44'/0'/0/-1
textNegative == <<109, 47, 52, 52, 39, 47, 48, 39, 47, 48, 47, 45, 49>>

nonNegative(path) ==
  path.purpose >= 0 /\ path.account >= 0 /\ path.change >= 0 /\ path.addressIndex >= 0

inUInt32(w) == (~w.neg \/ (w.hi = 0 /\ w.lo = 0)) /\ w.hi < 65536

\* C22: deriveChild(index) produces a child node only when 0 <= index < 2^32;
\* for a negative index and for an index of 2^32 or more it fails and
\* produces no child entropy: the child of 2^32 + k is never the child of k.
C22_IndexRange ==
  call.pc = "derived" =>
    /\ call.out.thrown <=> ~inUInt32(call.index)
    /\ call.out.thrown => call.out.result.masterEntropy = Null
    /\ ~call.out.thrown => Len(call.out.result.masterEntropy) = MasterLen
    /\ call.index.hi >= 65536 /\ call.index.hi < 131072 =>
         call.out.result.masterEntropy
           # deriveChildOf(call.node, Wide(call.index.neg, call.index.hi - 65536,
                                          call.index.lo)).result.masterEntropy

\* deriveChild(2^32 + 1) was called and threw.
C22_Witness ==
  /\ call.pc = "derived"
  /\ call.index = Wide(FALSE, 65536, 1)
  /\ call.out.thrown
  /\ ~deriveChildOf(call.node, wideOf(1)).thrown

\* The index as the child path holds it.
indexGiven(w) == IF ~w.neg /\ w.hi < 32768 THEN w.hi * 65536 + w.lo ELSE w

\* C28: deriveChild(index) leaves the node it is called on unchanged
\* (entropy, path and keys) and returns a new node whose path has the
\* parent's purpose, account and change and addressIndex = index, and whose
\* public and private keys are unset.
C28_DeriveChildFrame ==
  call.pc = "derived" =>
    /\ call.out.this = call.node
    /\ ~call.out.thrown =>
         /\ call.out.result.path
              = QTCHDPath(call.node.path.purpose, call.node.path.account,
                          call.node.path.change, indexGiven(call.index))
         /\ call.out.result.publicKey = Null
         /\ call.out.result.privateKey = Null
         /\ call.out.result.chainCode = Null

\* A node that holds its keys, at index 7 of account 1, gave its child 2.
C28_Witness ==
  /\ call.pc = "derived"
  /\ call.node.publicKey # Null
  /\ call.node.privateKey # Null
  /\ call.node.path = QTCHDPath(DefaultPurpose, 1, 0, 7)
  /\ call.index = wideOf(2)
  /\ ~call.out.thrown
  /\ call.out.result.path = QTCHDPath(DefaultPurpose, 1, 0, 2)

\* C23: two generate runs interleaved in any order share no mutable state:
\* the record a run reports, and the record the directory holds for it when
\* it ends, are the record of that run, as when it runs alone.
C23_NoSharedState ==
  [][\A p \in Procs:
       run[p].pc = "print" /\ run'[p].pc = "exit"
         => /\ run'[p].stdout = run[p].walletData
            /\ files'[FileOf(run[p].script)] = run'[p].stdout]_vars

\* C24: Address round trip.  For every witness version v in 0..31 and every
\* 20-byte program p, decoding the text the address encoding produces for v
\* and p returns ("qtc", v, p).
C24_AddressRoundTrip ==
  call.pc = "decoded"
    => call.out = Decoded("none", HRP_qtc, call.witnessVersion, call.program)

\* The same round trip through a decode that verifies the checksum with the
\* constant of the library export the scripts import.
C24_RoundTripBech32 ==
  call.pc = "decoded"
    => call.outBech32 = Decoded("none", HRP_qtc, call.witnessVersion, call.program)

\* The words the encoder receives for a 20-byte program: 32, after the
\* witness version where the script puts one.
programWords(data) == IF Len(data) = 33 THEN Tail(data) ELSE data

\* C25: every address program passed to the address encoder is exactly 20
\* bytes long, in every variant and for every input, whatever the width of
\* the digest it is cut from: the encoder receives its 32 five-bit words.
C25_ProgramLength ==
  \A p \in Procs:
    /\ Produced(p) /\ run[p].script \notin HdScripts
       => /\ Len(run[p].loc.addressBytes) = ProgramLen
          /\ programWords(run[p].loc.address.data) = toWords(run[p].loc.addressBytes)
          /\ Len(programWords(run[p].loc.address.data)) = 32
    /\ run[p].script \in HdScripts
       => \A k \in 1..Len(run[p].iters):
            /\ Len(run[p].iters[k].addressBytes) = ProgramLen
            /\ programWords(run[p].addresses[k].address.data)
                 = toWords(run[p].iters[k].addressBytes)
            /\ Len(programWords(run[p].addresses[k].address.data)) = 32
    /\ run[p].pc = "keys" /\ run[p].script = "qti3_noble.js"
       => /\ Len(generateSingle(run[p].script, run[p].kem, "none").addressBytes)
               = ProgramLen
          /\ Len(generateSingle(run[p].script, run[p].kem, "none").address.data) = 33

\* A Single PQ-HD run cut its 20-byte program from a 32-byte digest of its
\* 64-byte master entropy.
C25_Witness ==
  \E p \in Procs:
    /\ run[p].script = "qti3.js"
    /\ Produced(p)
    /\ Len(run[p].loc.entropy) = MasterLen
    /\ Len(SHA3_256(run[p].loc.entropy)) = 32
    /\ run[p].loc.addressBytes = Take(SHA3_256(run[p].loc.entropy), ProgramLen)

\* C26: the noble-based Single PQ-HD script reads a combined-input value no
\* step computes: its generate command never reaches the write, ends with
\* status 1, writes no wallet file and prints no JSON, also when every
\* cryptographic call succeeded.
C26_NobleNeverAssembles ==
  \A p \in Procs:
    run[p].script = "qti3_noble.js"
    => /\ run[p].pc \notin {"write", "print"}
       /\ ~Produced(p)
       /\ ~run[p].wrote
       /\ run[p].stdout = NoWallet
       /\ run[p].pc = "exit" => run[p].exitCode = 1
       /\ run[1].script = "qti3_noble.js" => files[FileOf("qti3_noble.js")] = NoWallet
       /\ run[p].pc = "keys"
          => /\ ~sigKeygen("noble", provisionalSeed(run[p].kem.sharedSecret), "none").thrown
             /\ generateSingle(run[p].script, run[p].kem, "none").thrown

\* A run of the noble-based script whose KEM and signature calls succeeded
\* ended with status 1.
C26_Witness ==
  \E p \in Procs:
    /\ run[p].script = "qti3_noble.js"
    /\ run[p].pc = "exit"
    /\ run[p].exitCode = 1
    /\ run[p].providerCalls = 1
    /\ ~run[p].providerFailed
    /\ files[FileOf("qti3_noble.js")] = NoWallet

\* The Single PQ-HD script that takes its primitives from a provider.
singleOf(provider) == IF provider = "cli" THEN "qti3.js" ELSE "qti3_noble.js"

\* What a Single PQ-HD script computes in its steps 2-5 from the KEM result
\* of the run p.
singleFrom(p, provider) == generateSingle(singleOf(provider), run[p].kem, "none")

\* The 32 bytes of SHAKE256 over the shared secret of the run p followed by
\* the tag.
taggedSeedOf(p) ==
  SHAKE256(run[p].kem.sharedSecret \o TAG_QTC_PQHD_DILITHIUM, DilithiumSeedLen)

C30_OverwriteSemantics ==
  [][\A p \in Procs:
       /\ run[p].pc = "write" /\ run'[p].pc = "print"
          => /\ files'[FileOf(run[p].script)] = run[p].walletData
             /\ \A f \in FileNames \ {FileOf(run[p].script)}: files'[f] = files[f]
       /\ run[p].pc # "exit" /\ run'[p].pc = "exit" /\ run'[p].exitCode # 0
          => files' = files]_vars

\* The part of C30 on successful runs alone: the write of a run leaves its
\* file holding that run's record and nothing else.
C30_SuccessfulRunsReplace ==
  [][\A p \in Procs:
       run[p].pc = "write" /\ run'[p].pc = "print"
         => /\ files'[FileOf(run[p].script)] = run[p].walletData
            /\ \A f \in FileNames \ {FileOf(run[p].script)}: files'[f] = files[f]]_vars

====
